---------------------------- MODULE Spec2Model ----------------------------
(***************************************************************************)
(* Model of dat2lta85.py: the decoder of a LithTech Jupiter .dat world and *)
(* its re-encoder to the .lta text format.                                 *)
(*                                                                         *)
(* Strings read from the .dat file are sequences of character codes, so    *)
(* that strip(), lower(), upper(), startswith() and the name hash are      *)
(* computed character by character.  32-bit unsigned values that the code  *)
(* masks with 0xFFFFFFFF are pairs of 16-bit limbs [hi, lo].               *)
(***************************************************************************)
EXTENDS Integers, Sequences, FiniteSets, TLC

VARIABLES
    pc,                        \* position in main() / the handler under study
    dat,                       \* the decoded content of the input file
    hash_in, hash_out,         \* argument and result of st_gethash_ic
    keyframer_basekeynames,    \* read_world_objects: list of BaseKeyName values
    scattervolume_names,       \* read_world_objects: list of ScatterVolume names
    occluder_names,            \* read_world_objects: ordered dict name -> hash
    blind_labels,              \* read_blind_objects: name printed per interpreted blind object
    keyframer_data_map,        \* read_blind_objects: ordered dict name -> keys
    world_objects,             \* export: result of read_world_objects_lta
    section_brushes_by_node,   \* export: ordered dict node_index -> brushes
    wm_names_list,             \* export: wm_index -> wm_name
    wm_section_props,          \* export: one record per retained WM group
    all_wm_data,               \* export: ordered dict wm_name -> polyhedron data
    skyportals_all,            \* module-level list (line 1319)
    occluders_all,             \* module-level list (line 1320)
    slice_log,                 \* export: per node, the triangles each section was given
    polyhedrons,               \* export: polyhedrons written, in order
    polyBlocks_count,          \* export: result of write_physics_polygons
    polypParticleblock_count,  \* export: result of write_particleblockers_polygons
    matched_wm_to_obj,         \* export: dict object index -> wm_id
    node_hierarchy,            \* export: worldnodes written, in order
    globalproplist,            \* export: proplist entries written, in order
    occluder_prop_names,       \* export: the Name written in every occluder proplist
    opq_args, opq_result,      \* arguments and result of generate_opq_exact
    f_data, f_pos,             \* a file object: its bytes and its cursor
    read_result,               \* what a primitive read returned or raised
    phase_log,                 \* main: the decode phases run, in order
    blind_error,               \* read_blind_objects: the ValueError raised, if any
    obj_cursor_log,            \* read_world_objects: cursor after every property
    blind_cursor_log,          \* read_blind_objects: cursor after every blind object
    lta_cursor_log,            \* read_world_objects_lta: cursor after every property
    read_blockers,             \* what read_particle_blockers decoded or raised
    written_blockers,          \* what write_particleblockers_polygons decoded or raised
    call_log,                  \* what the earlier calls of export_rendernodes_to_lta wrote
    worldtree,                 \* write_surfaces_to_lta: the world models of the world tree
    global_surface_data,       \* write_surfaces_to_lta: (world model, surface) per polyhedron
    surface_polyhedrons,       \* write_surfaces_to_lta: polyhedrons written, in order
    surface_hierarchy,         \* write_surfaces_to_lta: worldnodes written, in order
    surface_proplist           \* write_surfaces_to_lta: proplist entries written, in order

hashVars == <<hash_in, hash_out>>
objVars  == <<keyframer_basekeynames, scattervolume_names, occluder_names,
              blind_labels, keyframer_data_map>>
decVars  == <<world_objects, section_brushes_by_node, wm_names_list,
              wm_section_props, all_wm_data, skyportals_all, occluders_all,
              slice_log, polyhedrons, polyBlocks_count, polypParticleblock_count>>
outVars  == <<matched_wm_to_obj, node_hierarchy, globalproplist, occluder_prop_names>>
solverVars == <<opq_args, opq_result>>
readVars == <<f_data, f_pos, read_result>>
traceVars == <<phase_log, blind_error, obj_cursor_log, blind_cursor_log, lta_cursor_log>>
blockerVars == <<read_blockers, written_blockers>>
surfVars == <<worldtree, global_surface_data, surface_polyhedrons, surface_hierarchy,
              surface_proplist>>
auxVars  == <<blockerVars, call_log, surfVars>>
vars     == <<pc, dat, hashVars, objVars, decVars, outVars, solverVars, readVars, traceVars,
              auxVars>>

-----------------------------------------------------------------------------
(* Bounds of the model *)

MaxStrLen == 3        \* length of the strings given to st_gethash_ic
MaxObjects == 2       \* WorldObjects in the file
MaxBlind == 3         \* blind objects in the file
MaxRenderNodes == 2   \* render nodes in the file
MaxWMNodes == 1       \* WM render nodes in the file
MaxSections == 2      \* sections of the node whose geometry is reconstructed
MaxTris == 2          \* triangles in the buffer of that node, tri_count of a section

-----------------------------------------------------------------------------
(* Generic helpers *)

Min(a, b) == IF a < b THEN a ELSE b

Range(s) == {s[i] : i \in 1..Len(s)}

SeqsUpTo(S, n) == UNION {[1..k -> S] : k \in 0..n}

RECURSIVE SumSeq(_)
SumSeq(s) == IF s = <<>> THEN 0 ELSE Head(s) + SumSeq(Tail(s))

\* F applied to the value of v, which is computed once
With(v, F(_)) == F(v)

\* nothing returned, nothing raised
NoResult == [kind |-> "none"]

RECURSIVE Flatten(_)
Flatten(ss) == IF ss = <<>> THEN <<>> ELSE Head(ss) \o Flatten(Tail(ss))

-----------------------------------------------------------------------------
(* Characters and strings *)

OrdA == 65            \* ord('A')

\* str.upper() / str.lower() of one ASCII character
Upper(c) == IF c \in 97..122 THEN c - 32 ELSE c
Lower(c) == IF c \in 65..90 THEN c + 32 ELSE c

StrUpper(s) == [i \in 1..Len(s) |-> Upper(s[i])]
StrLower(s) == [i \in 1..Len(s) |-> Lower(s[i])]

\* ASCII whitespace removed by str.strip(): \t \n \v \f \r, FS..US, space
IsSpace(c) == c \in (9..13) \cup (28..32)

RECURSIVE LStrip(_)
LStrip(s) == IF s # <<>> /\ IsSpace(Head(s)) THEN LStrip(Tail(s)) ELSE s

RECURSIVE RStrip(_)
RStrip(s) ==
    IF s # <<>> /\ IsSpace(s[Len(s)]) THEN RStrip(SubSeq(s, 1, Len(s) - 1)) ELSE s

Strip(s) == RStrip(LStrip(s))

StartsWith(s, p) == Len(s) >= Len(p) /\ SubSeq(s, 1, Len(p)) = p

-----------------------------------------------------------------------------
(* st_gethash_ic, lines 35-45 *)

Limb == 2^16          \* a uint32 is [hi, lo] with value hi * 2^16 + lo

HashMultiplier == 29

\* val & 0xFFFFFFFF with a negative val taken as 0
MaskU32Clamped(val) ==
    IF val < 0 THEN [hi |-> 0, lo |-> 0]
    ELSE [hi |-> (val \div Limb) % Limb, lo |-> val % Limb]

\* val & 0xFFFFFFFF for a (possibly negative) Python int of small magnitude
MaskU32(val) ==
    LET lo == val % Limb
    IN  [hi |-> ((val - lo) \div Limb) % Limb, lo |-> lo]

\* (n * 29 + v) & 0xFFFFFFFF on limbs
MulAddU32(n, v) ==
    LET lo == n.lo * HashMultiplier + v.lo
        hi == n.hi * HashMultiplier + v.hi + (lo \div Limb)
    IN  [hi |-> hi % Limb, lo |-> lo % Limb]

\* one iteration of the loop: the character is NOT upper-cased
HashStepCaseSensitive(n, ch) == MulAddU32(n, MaskU32(ch - OrdA))

\* one iteration of the loop of st_gethash_ic
HashStep(n, ch) == MulAddU32(n, MaskU32(Upper(ch) - OrdA))

RECURSIVE HashFrom(_, _)
HashFrom(n, s) == IF s = <<>> THEN n ELSE HashFrom(HashStep(n, Head(s)), Tail(s))

st_gethash_ic(s) == HashFrom([hi |-> 0, lo |-> 0], s)

-----------------------------------------------------------------------------
(* Decimal formatting used by the f-strings *)

RECURSIVE Decimal(_)
Decimal(n) == IF n < 10 THEN <<48 + n>> ELSE Decimal(n \div 10) \o <<48 + (n % 10)>>

\* f"{n:02d}"
Decimal02(n) == IF n < 10 THEN <<48>> \o Decimal(n) ELSE Decimal(n)

-----------------------------------------------------------------------------
(* Ordered dictionaries (Python dict): sequences of [k, v], keys unique,   *)
(* in insertion order; assigning an existing key keeps its position.       *)

DictHas(d, k) == \E i \in 1..Len(d) : d[i].k = k

DictGet(d, k) == d[CHOOSE i \in 1..Len(d) : d[i].k = k].v

DictSet(d, k, v) ==
    IF DictHas(d, k)
    THEN [i \in 1..Len(d) |-> IF d[i].k = k THEN [k |-> k, v |-> v] ELSE d[i]]
    ELSE Append(d, [k |-> k, v |-> v])

DictKeys(d) == [i \in 1..Len(d) |-> d[i].k]

-----------------------------------------------------------------------------
(* String literals of the source *)

sBaseKeyName  == <<66, 97, 115, 101, 75, 101, 121, 78, 97, 109, 101>>       \* "BaseKeyName"
sOccluderName == <<79, 99, 99, 108, 117, 100, 101, 114, 78, 97, 109, 101>>  \* "OccluderName"
sName         == <<78, 97, 109, 101>>                                       \* "Name"
sRenderGroup  == <<82, 101, 110, 100, 101, 114, 71, 114, 111, 117, 112>>    \* "RenderGroup"
sUnknownKeyFramerName ==                               \* "<Unknown KeyFramer Name>"
    <<60, 85, 110, 107, 110, 111, 119, 110, 32, 75, 101, 121, 70, 114, 97,
      109, 101, 114, 32, 78, 97, 109, 101, 62>>
sUnknownScatterVolumeName ==                           \* "<Unknown ScatterVolume Name>"
    <<60, 85, 110, 107, 110, 111, 119, 110, 32, 83, 99, 97, 116, 116, 101,
      114, 86, 111, 108, 117, 109, 101, 32, 78, 97, 109, 101, 62>>

\* f"<Unknown type {data_type}, skipped {data_size} bytes>"
UnknownTypeText(data_type, data_size) ==
    <<60, 85, 110, 107, 110, 111, 119, 110, 32, 116, 121, 112, 101, 32>>
    \o Decimal(data_type)
    \o <<44, 32, 115, 107, 105, 112, 112, 101, 100, 32>>
    \o Decimal(data_size)
    \o <<32, 98, 121, 116, 101, 115, 62>>

-----------------------------------------------------------------------------
(* read_world_objects, lines 426-489 *)

KnownDataTypes == {0, 1, 2, 3, 5, 6, 7}

\* the Python value decoded for one property: a str or something else
PropValue(p) ==
    IF p.data_type = 0 THEN [isstr |-> TRUE, s |-> p.value]
    ELSE IF p.data_type \in KnownDataTypes THEN [isstr |-> FALSE, s |-> <<>>]
    ELSE [isstr |-> TRUE, s |-> UnknownTypeText(p.data_type, p.data_size)]

\* lines 480-481 with the name stored lower-cased
AddOccluderNameLowerKey(names, value) ==
    IF DictHas(names, StrLower(value)) THEN names
    ELSE DictSet(names, StrLower(value), st_gethash_ic(value))

\* lines 480-481: save only unique names, with their hash
AddOccluderName(names, value) ==
    IF DictHas(names, value) THEN names
    ELSE DictSet(names, value, st_gethash_ic(value))

\* lines 470-481: what one decoded property adds to the three collections
CollectProp(acc, obj_type, p) ==
    LET value == PropValue(p)
    IN  [kf  |-> IF obj_type = "KeyFramer" /\ p.name = sBaseKeyName /\ value.isstr
                 THEN Append(acc.kf, value.s) ELSE acc.kf,
         sv  |-> IF obj_type = "ScatterVolume" /\ p.name = sName /\ value.isstr
                 THEN Append(acc.sv, value.s) ELSE acc.sv,
         occ |-> IF /\ obj_type = "DynamicOccluderVolume"
                    /\ StartsWith(p.name, sOccluderName)
                    /\ value.isstr
                    /\ value.s # <<>>
                 THEN AddOccluderName(acc.occ, value.s) ELSE acc.occ]

RECURSIVE CollectProps(_, _, _)
CollectProps(acc, obj_type, props) ==
    IF props = <<>> THEN acc
    ELSE CollectProps(CollectProp(acc, obj_type, Head(props)), obj_type, Tail(props))

RECURSIVE CollectObjects(_, _)
CollectObjects(acc, objs) ==
    IF objs = <<>> THEN acc
    ELSE CollectObjects(CollectProps(acc, Head(objs).type, Head(objs).props), Tail(objs))

read_world_objects(objs) ==
    CollectObjects([kf |-> <<>>, sv |-> <<>>, occ |-> <<>>], objs)

\* the bytes read_lithtech_string consumes for the string s
StrBytes(s) == 2 + Len(s)

\* lines 442-445 (1085-1088): name, data_type, flags, data_size
PropHeaderBytes(p) == StrBytes(p.name) + 1 + 4 + 2

\* lines 436-438 (1079-1081): object_size, obj_type, prop_count
ObjHeaderBytes(o) == 2 + StrBytes(o.type) + 4

\* lines 448-466: the cursor after the value of a property whose value
\* starts at pos, in the diagnostic decoder
DiagValueEnd(pos, p) ==
    IF p.name = sRenderGroup /\ p.data_type = 6 THEN pos + 4
    ELSE IF p.data_type = 0 THEN pos + StrBytes(p.value)
    ELSE IF p.data_type = 1 THEN pos + 12
    ELSE IF p.data_type = 2 THEN pos + 12
    ELSE IF p.data_type = 3 THEN pos + 4
    ELSE IF p.data_type = 5 THEN pos + 1
    ELSE IF p.data_type = 6 THEN pos + 4
    ELSE IF p.data_type = 7 THEN pos + 16
    ELSE pos + p.data_size

\* line 1112 without the seek
LtaSkipNothing(pos, data_size) == pos

\* line 1112: f.seek(data_size, 1)
LtaSkip(pos, data_size) == pos + data_size

\* lines 1090-1114: the same cursor in the export decoder
LtaValueEnd(pos, p) ==
    IF p.data_type = 0 THEN pos + StrBytes(p.value)
    ELSE IF p.data_type = 1 THEN pos + 12
    ELSE IF p.data_type = 2 THEN pos + 12
    ELSE IF p.data_type = 3 THEN pos + 4
    ELSE IF p.data_type = 5 THEN pos + 1
    ELSE IF p.data_type = 6 THEN pos + 4
    ELSE IF p.data_type = 7 THEN pos + 16
    ELSE LtaSkip(pos, p.data_size)

ValueEnd(lta, pos, p) == IF lta THEN LtaValueEnd(pos, p) ELSE DiagValueEnd(pos, p)

PropBytes(lta, p) == PropHeaderBytes(p) + ValueEnd(lta, 0, p)

ObjBytes(lta, o) ==
    ObjHeaderBytes(o) + SumSeq([j \in 1..Len(o.props) |-> PropBytes(lta, o.props[j])])

\* lines 435-466 (1078-1117): the cursor, counted from
\* header.object_data_pos, where the value of every property starts and
\* where the property ends, by the diagnostic (lta = FALSE) or the export
\* decoder (lta = TRUE)
CursorLog(lta, objs) ==
    Flatten([i \in 1..Len(objs) |->
        [j \in 1..Len(objs[i].props) |->
            With(4 + SumSeq([k \in 1..(i - 1) |-> ObjBytes(lta, objs[k])])
                   + ObjHeaderBytes(objs[i])
                   + SumSeq([k \in 1..(j - 1) |-> PropBytes(lta, objs[i].props[k])])
                   + PropHeaderBytes(objs[i].props[j]),
                 LAMBDA at :
                    [obj |-> i - 1, prop |-> j - 1, at_value |-> at,
                     after |-> ValueEnd(lta, at, objs[i].props[j])])]])

-----------------------------------------------------------------------------
(* read_blind_objects, lines 491-617 *)

KeyFramerId     == 1789855876
ScatterVolumeId == 1945451140

KnownKeyTypes == {0, 1, 2, 3}

\* lines 522-525
FullKeyName(key_name, key_idx) ==
    IF key_idx = 0 THEN key_name \o Decimal(key_idx) ELSE key_name \o Decimal02(key_idx)

\* lines 527-552: the bytes of one key record with empty sound name and
\* command: key_type, name_len, cmd_len, pos, rot_deg, timestamp,
\* sound_radius, then the Bezier handles its key_type announces
KeyBytes(key_type) ==
    2 + 1 + 1 + 12 + 12 + 4 + 4
    + (IF key_type \in {1, 2} THEN 12 ELSE IF key_type = 3 THEN 24 ELSE 0)

\* lines 542-552 with an unknown key_type read as one without handles
ReadKeysSkipUnknown(done, key_name, obj_idx, key_idx, keys) ==
    [keys |-> [k \in 1..Len(keys) |->
                  [full_name |-> FullKeyName(key_name, key_idx + k - 1),
                   key_type  |-> keys[k],
                   src       |-> <<obj_idx, key_idx + k - 1>>]],
     err  |-> FALSE]

\* lines 521-579: the keys of one track, up to the first unknown key_type;
\* obj_idx and key_idx (0-based) identify the record a key was decoded from
RECURSIVE ReadKeys(_, _, _, _, _)
ReadKeys(done, key_name, obj_idx, key_idx, keys) ==
    IF keys = <<>> THEN [keys |-> done, err |-> FALSE]
    ELSE IF Head(keys) \notin KnownKeyTypes THEN [keys |-> done, err |-> TRUE]
    ELSE ReadKeys(Append(done, [full_name |-> FullKeyName(key_name, key_idx),
                                key_type  |-> Head(keys),
                                src       |-> <<obj_idx, key_idx>>]),
                  key_name, obj_idx, key_idx + 1, Tail(keys))

\* lines 509-512 as they behave when keyframer_idx never advances
KeyNameNoAdvance(names, keyframer_idx) ==
    IF 0 < Len(names) THEN names[1] ELSE sUnknownKeyFramerName

\* lines 509-512: the name of the keyframer_idx-th (0-based) keyframe track
KeyName(names, keyframer_idx) ==
    IF keyframer_idx < Len(names) THEN names[keyframer_idx + 1]
    ELSE sUnknownKeyFramerName

\* lines 584-587
ScatterName(names, scatter_idx) ==
    IF scatter_idx < Len(names) THEN names[scatter_idx + 1]
    ELSE sUnknownScatterVolumeName

\* line 613 advancing by the 8 bytes of the record's own header less
SkipBlindLessHeader(pos, engine_size) == pos + engine_size - 8

\* line 613: f.seek(engine_size, 1)
SkipBlind(pos, engine_size) == pos + engine_size

\* lines 501-615: one blind object; pos is the cursor, counted from
\* header.blind_object_data_pos; a scatter volume of the model has no volumes
ReadBlindObject(acc, kf_names, sv_names, obj_idx, bo) ==
    IF bo.obj_id = KeyFramerId THEN
        With(KeyName(kf_names, acc.keyframer_idx),
             LAMBDA key_name :
                With(ReadKeys(<<>>, key_name, obj_idx, 0, bo.keys),
                     LAMBDA r :
                        [acc EXCEPT
                            !.keyframer_idx = @ + 1,
                            !.map    = DictSet(@, key_name, r.keys),
                            !.labels = Append(@, [obj_idx |-> obj_idx,
                                                  tag |-> "KeyFramer",
                                                  name |-> key_name]),
                            !.err    = r.err,
                            !.error  = IF r.err
                                       THEN [kind     |-> "ValueError",
                                             obj_idx  |-> obj_idx,
                                             key_idx  |-> Len(r.keys),
                                             key_type |-> bo.keys[Len(r.keys) + 1]]
                                       ELSE @,
                            !.pos    = @ + 4 + 4 + 4
                                       + SumSeq([k \in 1..Len(r.keys) |->
                                                    KeyBytes(r.keys[k].key_type)]),
                            !.cursor_log = IF r.err THEN @
                                           ELSE Append(@,
                                               [obj_idx    |-> obj_idx,
                                                at_payload |-> acc.pos + 4 + 4,
                                                after      |-> acc.pos + 4 + 4 + 4
                                                    + SumSeq([k \in 1..Len(r.keys) |->
                                                        KeyBytes(r.keys[k].key_type)])])]))
    ELSE IF bo.obj_id = ScatterVolumeId THEN
        [acc EXCEPT
            !.scatter_idx = @ + 1,
            !.labels = Append(@, [obj_idx |-> obj_idx, tag |-> "ScatterVolume",
                                  name |-> ScatterName(sv_names, acc.scatter_idx)]),
            !.pos = @ + 4 + 4 + 4,
            !.cursor_log = Append(@, [obj_idx    |-> obj_idx,
                                      at_payload |-> acc.pos + 4 + 4,
                                      after      |-> acc.pos + 4 + 4 + 4])]
    ELSE [acc EXCEPT !.pos = SkipBlind(@ + 4 + 4, bo.engine_size),
                     !.cursor_log = Append(@,
                         [obj_idx    |-> obj_idx,
                          at_payload |-> acc.pos + 4 + 4,
                          after      |-> SkipBlind(acc.pos + 4 + 4, bo.engine_size)])]

RECURSIVE ReadBlindFrom(_, _, _, _, _)
ReadBlindFrom(acc, kf_names, sv_names, obj_idx, bos) ==
    IF bos = <<>> \/ acc.err THEN acc
    ELSE ReadBlindFrom(ReadBlindObject(acc, kf_names, sv_names, obj_idx, Head(bos)),
                       kf_names, sv_names, obj_idx + 1, Tail(bos))

read_blind_objects(bos, kf_names, sv_names) ==
    ReadBlindFrom([keyframer_idx |-> 0, scatter_idx |-> 0, map |-> <<>>,
                   labels |-> <<>>, err |-> FALSE, error |-> NoResult,
                   pos |-> 4, cursor_log |-> <<>>],
                  kf_names, sv_names, 0, bos)

-----------------------------------------------------------------------------
(* Geometry reconstruction of one render node or WM sub-node,              *)
(* lines 1355-1430 and 1498-1592.  A vertex is identified by its index in  *)
(* the node's vertex buffer, a triangle by its 0-based position in the     *)
(* node's triangle buffer.                                                 *)

sLightAnimBase ==                                      \* "lightanim_base"
    <<108, 105, 103, 104, 116, 97, 110, 105, 109, 95, 98, 97, 115, 101>>

\* line 1362 without str.lower()
IsLightAnimCaseSensitive(tex0) == Strip(tex0) = sLightAnimBase

\* lines 1355, 1362 (1498, 1505): t0 = tex0.strip(); t0.lower() == "lightanim_base"
IsLightAnim(tex0) == StrLower(Strip(tex0)) = sLightAnimBase

\* s[a:b] of Python for 0 <= a <= b, losing the last element
PySliceShort(s, a, b) == SubSeq(s, Min(a, Len(s)) + 1, Min(b, Len(s)) - 1)

\* s[a:b] of Python for 0 <= a <= b: both ends are clamped to len(s)
PySlice(s, a, b) == SubSeq(s, Min(a, Len(s)) + 1, Min(b, Len(s)))

\* lines 1383-1387 (1526-1530): the triangle buffer, each entry with its position
AllTris(node) ==
    [p \in 1..Len(node.tris) |-> [pos |-> p - 1, v |-> node.tris[p]]]

\* lines 1394-1398 with the cursor left alone by an animation section
RECURSIVE SliceSectionsKeptOnly(_, _, _)
SliceSectionsKeptOnly(sections, all_tris, cursor) ==
    IF sections = <<>> THEN <<>>
    ELSE <<PySlice(all_tris, cursor, cursor + Head(sections).tri_count)>>
         \o SliceSectionsKeptOnly(Tail(sections), all_tris,
                                  IF IsLightAnim(Head(sections).tex0) THEN cursor
                                  ELSE cursor + Head(sections).tri_count)

\* lines 1394-1398 (1543-1548): the slice of every section, in declaration order
RECURSIVE SliceSections(_, _, _)
SliceSections(sections, all_tris, cursor) ==
    IF sections = <<>> THEN <<>>
    ELSE <<PySlice(all_tris, cursor, cursor + Head(sections).tri_count)>>
         \o SliceSections(Tail(sections), all_tris, cursor + Head(sections).tri_count)

\* lines 1396-1407 (1545-1555): the retained sections with their triangles;
\* section is the section's 0-based declaration index
KeptSections(node) ==
    With(SliceSections(node.sections, AllTris(node), 0),
         LAMBDA slices :
            SelectSeq([j \in 1..Len(node.sections) |->
                          [section      |-> j - 1,
                           is_lightanim |-> IsLightAnim(node.sections[j].tex0),
                           tris         |-> slices[j]]],
                      LAMBDA s : ~s.is_lightanim))

\* line 1417 storing the length after the append
NewLocalIndexAfterAppend(local_verts) == Len(local_verts) + 1

\* line 1417 (1569): index_map[i] = len(local_verts)
NewLocalIndex(local_verts) == Len(local_verts)

\* lines 1415-1418 without the test "i not in index_map"
RepackIndexAlwaysAppend(acc, i, vertex_count) ==
    IF acc.err THEN acc
    ELSE IF i >= vertex_count THEN [acc EXCEPT !.err = TRUE]
    ELSE [acc EXCEPT !.index_map   = DictSet(@, i, Len(acc.local_verts)),
                     !.local_verts = Append(@, i)]

\* lines 1415-1418 with vertices[i] giving a vertex for every i
RepackIndexUnchecked(acc, i, vertex_count) ==
    IF DictHas(acc.index_map, i) THEN acc
    ELSE [acc EXCEPT !.index_map   = DictSet(@, i, Len(acc.local_verts)),
                     !.local_verts = Append(@, i)]

\* lines 1415-1418 (1567-1570): one vertex index of one triangle;
\* vertices[i] raises IndexError when i >= len(vertices)
RepackIndex(acc, i, vertex_count) ==
    IF acc.err \/ DictHas(acc.index_map, i) THEN acc
    ELSE IF i >= vertex_count THEN [acc EXCEPT !.err = TRUE]
    ELSE [acc EXCEPT !.index_map   = DictSet(@, i, NewLocalIndex(acc.local_verts)),
                     !.local_verts = Append(@, i)]

RECURSIVE RepackIndices(_, _, _)
RepackIndices(acc, idxs, vertex_count) ==
    IF idxs = <<>> THEN acc
    ELSE RepackIndices(RepackIndex(acc, Head(idxs), vertex_count), Tail(idxs), vertex_count)

\* lines 1412-1420 (1564-1573): local vertex list and remapped triangles
Repack(tris, vertex_count) ==
    With(RepackIndices([index_map |-> <<>>, local_verts |-> <<>>, err |-> FALSE],
                       Flatten([k \in 1..Len(tris) |-> tris[k].v]), vertex_count),
         LAMBDA r :
            IF r.err THEN [err |-> TRUE, local_verts |-> <<>>, local_tris |-> <<>>]
            ELSE [err         |-> FALSE,
                  local_verts |-> r.local_verts,
                  local_tris  |-> [k \in 1..Len(tris) |->
                      [pos |-> tris[k].pos,
                       v   |-> [c \in 1..3 |-> DictGet(r.index_map, tris[k].v[c])]]]])

\* lines 1389-1407 (1532-1555): what the slicing of one node read
SliceLog(kind, node_index, subnode_index, node) ==
    [kind     |-> kind, node |-> node_index, subnode |-> subnode_index,
     expected |-> SumSeq([j \in 1..Len(node.sections) |-> node.sections[j].tri_count]),
     actual   |-> Len(node.tris),
     slices   |-> SliceSections(node.sections, AllTris(node), 0)]

\* lines 1410-1430 (1559-1592): the groups of one node, up to the first
\* IndexError; every group keeps the section it was sliced from
RECURSIVE RepackSections(_, _, _, _)
RepackSections(done, kept, section_idx, vertex_count) ==
    IF kept = <<>> THEN [groups |-> done, err |-> FALSE]
    ELSE With(Repack(Head(kept).tris, vertex_count),
              LAMBDA r :
                 IF r.err THEN [groups |-> done, err |-> TRUE]
                 ELSE RepackSections(
                          Append(done, [section_idx |-> section_idx,
                                        section     |-> Head(kept).section,
                                        local_verts |-> r.local_verts,
                                        local_tris  |-> r.local_tris]),
                          Tail(kept), section_idx + 1, vertex_count))

NodeGroups(node) == RepackSections(<<>>, KeptSections(node), 0, node.vertex_count)

-----------------------------------------------------------------------------
(* read_world_objects_lta, lines 1073-1122 *)

None == [kind |-> "none", s |-> <<>>]

LtaValue(p) ==
    IF p.data_type = 0 THEN [kind |-> "str", s |-> p.value]
    ELSE IF p.data_type \in KnownDataTypes THEN [kind |-> "other", s |-> <<>>]
    ELSE None

RECURSIVE LtaProps(_, _)
LtaProps(props, ps) ==
    IF ps = <<>> THEN props
    ELSE LtaProps(DictSet(props, Head(ps).name, LtaValue(Head(ps))), Tail(ps))

read_world_objects_lta(objs) ==
    [i \in 1..Len(objs) |-> [type |-> objs[i].type, props |-> LtaProps(<<>>, objs[i].props)]]

\* obj.get("Name")
ObjGetName(obj) == IF DictHas(obj.props, sName) THEN DictGet(obj.props, sName) ELSE None

-----------------------------------------------------------------------------
(* export_rendernodes_to_lta: decoding of the render data, lines 1329-1632 *)

Polyhedron(kind, node, subnode, g) ==
    [kind |-> kind, node |-> node, subnode |-> subnode,
     section_idx |-> g.section_idx, section |-> g.section,
     local_verts |-> g.local_verts, local_tris |-> g.local_tris,
     faces |-> [k \in 1..Len(g.local_tris) |-> g.local_tris[k].v]]

\* a polyhedron without texture groups (sky portal, occluder, blocker): its
\* point list has the vcount decoded vertices, its polylist the one face
PlainPolyhedron(kind, idx, vcount, face) ==
    [kind |-> kind, node |-> idx, subnode |-> 0, section_idx |-> 0, section |-> 0,
     local_verts |-> [k \in 1..vcount |-> k - 1], local_tris |-> <<>>,
     faces |-> <<face>>]

\* lines 1254 and 1293: "( f 0 1 2 3 )"
QuadFace == <<0, 1, 2, 3>>

\* lines 1165 and 1213: ' '.join(str(j) for j in range(vcount))
RangeFace(vcount) == [j \in 1..vcount |-> j - 1]

\* lines 1428-1430: label, brush index
RECURSIVE AddSectionBrushes(_, _, _, _)
\* lines 1428-1429 with an entry made for every node, groups or not
RECURSIVE AddSectionBrushesEveryNode(_, _, _, _)
AddSectionBrushesEveryNode(by_node, node_index, groups, section_brushes_len) ==
    LET old == IF DictHas(by_node, node_index) THEN DictGet(by_node, node_index)
               ELSE <<>>
    IN  IF groups = <<>> THEN DictSet(by_node, node_index, old)
        ELSE AddSectionBrushesEveryNode(
                 DictSet(by_node, node_index,
                         Append(old, [label |-> [kind |-> "RN", node |-> node_index,
                                                 section |-> Head(groups).section_idx],
                                      index |-> section_brushes_len])),
                 node_index, Tail(groups), section_brushes_len + 1)

AddSectionBrushes(by_node, node_index, groups, section_brushes_len) ==
    IF groups = <<>> THEN by_node
    ELSE LET old == IF DictHas(by_node, node_index) THEN DictGet(by_node, node_index)
                    ELSE <<>>
             b   == [label |-> [kind |-> "RN", node |-> node_index,
                                section |-> Head(groups).section_idx],
                     index |-> section_brushes_len]
         IN  AddSectionBrushes(DictSet(by_node, node_index, Append(old, b)),
                               node_index, Tail(groups), section_brushes_len + 1)

\* lines 1337-1467: one render node
ReadRenderNode(acc, node_index, node) ==
    With(NodeGroups(node),
         LAMBDA r :
            [acc EXCEPT
                !.slice_log   = Append(@, SliceLog("RN", node_index, 0, node)),
                !.polyhedrons = @ \o [k \in 1..Len(r.groups) |->
                                         Polyhedron("RN", node_index, 0, r.groups[k])],
                !.section_brushes_by_node =
                    AddSectionBrushes(@, node_index, r.groups, Len(acc.polyhedrons)),
                !.skyportals_all = IF r.err THEN @ ELSE @ \o node.skyportals,
                !.occluders_all  = IF r.err THEN @ ELSE @ \o node.occluders,
                !.err = r.err])

RECURSIVE ReadRenderNodes(_, _, _)
ReadRenderNodes(acc, node_index, nodes) ==
    IF nodes = <<>> \/ acc.err THEN acc
    ELSE ReadRenderNodes(ReadRenderNode(acc, node_index, Head(nodes)),
                         node_index + 1, Tail(nodes))

\* lines 1482-1629: one sub-node of a WM render node
ReadWMSubNode(acc, wm_index, subnode_index, node) ==
    With(NodeGroups(node),
         LAMBDA r :
            [acc EXCEPT
                !.slice_log = Append(@, SliceLog("WM", wm_index, subnode_index, node)),
                !.wm_section_props = @ \o [k \in 1..Len(r.groups) |->
                    [wm_index |-> wm_index, subnode_index |-> subnode_index,
                     section_index |-> r.groups[k].section_idx]],
                !.wm_data = @ \o [k \in 1..Len(r.groups) |->
                                     Polyhedron("WM", wm_index, subnode_index, r.groups[k])],
                !.skyportals_all = IF r.err THEN @ ELSE @ \o node.skyportals,
                !.occluders_all  = IF r.err THEN @ ELSE @ \o node.occluders,
                !.err = r.err])

RECURSIVE ReadWMSubNodes(_, _, _, _)
ReadWMSubNodes(acc, wm_index, subnode_index, nodes) ==
    IF nodes = <<>> \/ acc.err THEN acc
    ELSE ReadWMSubNodes(ReadWMSubNode(acc, wm_index, subnode_index, Head(nodes)),
                        wm_index, subnode_index + 1, Tail(nodes))

\* lines 1475-1632: one WM render node
ReadWMNode(acc, wm_index, wm) ==
    With(ReadWMSubNodes([acc EXCEPT !.wm_names_list = Append(@, wm.name),
                                    !.wm_data = <<>>],
                        wm_index, 0, wm.subnodes),
         LAMBDA a :
            IF a.err THEN a
            ELSE [a EXCEPT !.all_wm_data = DictSet(@, wm.name, a.wm_data)])

RECURSIVE ReadWMNodes(_, _, _)
ReadWMNodes(acc, wm_index, wms) ==
    IF wms = <<>> \/ acc.err THEN acc
    ELSE ReadWMNodes(ReadWMNode(acc, wm_index, Head(wms)), wm_index + 1, Tail(wms))

-----------------------------------------------------------------------------
(* export_rendernodes_to_lta: the rest of the polyhedron list, 1634-1651 *)

\* lines 1635-1639 following the WM render nodes instead of the objects
WmOrderedByNode(objs, wm_data) ==
    SelectSeq([i \in 1..Len(wm_data) |-> wm_data[i].k],
              LAMBDA nm : \E i \in 1..Len(objs) :
                             ObjGetName(objs[i]) = [kind |-> "str", s |-> nm])

\* lines 1635-1639: obj_name and obj_name in all_wm_data
WmOrdered(objs, wm_data) ==
    With(SelectSeq([i \in 1..Len(objs) |-> ObjGetName(objs[i])],
                   LAMBDA nm : /\ nm.kind = "str"
                               /\ nm.s # <<>>
                               /\ DictHas(wm_data, nm.s)),
         LAMBDA keep : [i \in 1..Len(keep) |-> keep[i].s])

\* lines 1642-1648
WmPolyhedrons(objs, wm_data) ==
    With(WmOrdered(objs, wm_data),
         LAMBDA ord : Flatten([i \in 1..Len(ord) |-> DictGet(wm_data, ord[i])]))

\* write_skypo, lines 1280-1293
SkyPortalPolyhedrons(sky) ==
    [i \in 1..Len(sky) |-> PlainPolyhedron("SkyPortal", i - 1, sky[i].vert_count, QuadFace)]

\* write_occ, lines 1241-1254
OccluderPolyhedrons(occ) ==
    [i \in 1..Len(occ) |-> PlainPolyhedron("Occluder", i - 1, occ[i].vert_count, QuadFace)]

\* write_physics_polygons, lines 1144-1190
PhysicsPolyhedrons(polys) ==
    [i \in 1..Len(polys) |->
        PlainPolyhedron("Blocker", i - 1, polys[i].vcount, RangeFace(polys[i].vcount))]

\* write_particleblockers_polygons, lines 1192-1239
ParticleBlockerPolyhedrons(polys) ==
    [i \in 1..Len(polys) |->
        PlainPolyhedron("ParticleBlocker", i - 1, polys[i].vcount,
                        RangeFace(polys[i].vcount))]

-----------------------------------------------------------------------------
(* export_rendernodes_to_lta: node hierarchy, lines 1654-1924.             *)
(* An entity is [kind, id]: what a worldnode or a proplist entry describes.*)

Entity(kind, a, b, c) == [kind |-> kind, id |-> <<a, b, c>>]

\* one "( worldnode ... ( nodeid N ) ... ( propid P ) )" followed by
\* base_nodeid += 1 (and brushindex += 1 for a brush)
EmitNodeNoAdvance(st, type, entity, propid) ==
    [st EXCEPT
        !.nodes = Append(@, [type |-> type, entity |-> entity,
                             nodeid |-> st.base_nodeid, propid |-> propid,
                             brushindex |-> IF type = "brush" THEN st.brushindex ELSE -1]),
        !.brushindex  = IF type = "brush" THEN @ + 1 ELSE @]

EmitNode(st, type, entity, propid) ==
    [st EXCEPT
        !.nodes = Append(@, [type |-> type, entity |-> entity,
                             nodeid |-> st.base_nodeid, propid |-> propid,
                             brushindex |-> IF type = "brush" THEN st.brushindex ELSE -1]),
        !.base_nodeid = @ + 1,
        !.brushindex  = IF type = "brush" THEN @ + 1 ELSE @]

\* base_propid += 1
BumpPropId(st) == [st EXCEPT !.base_propid = @ + 1]

\* a brush or object node that takes a propid of its own
EmitOwnProp(st, type, entity) == BumpPropId(EmitNode(st, type, entity, st.base_propid))

RECURSIVE EmitAllOwnProp(_, _, _)
EmitAllOwnProp(st, type, entities) ==
    IF entities = <<>> THEN st
    ELSE EmitAllOwnProp(EmitOwnProp(st, type, Head(entities)), type, Tail(entities))

\* brushes that all carry the current propid
RECURSIVE EmitAllSharedProp(_, _)
EmitAllSharedProp(st, entities) ==
    IF entities = <<>> THEN st
    ELSE EmitAllSharedProp(EmitNode(st, "brush", Head(entities), st.base_propid),
                           Tail(entities))

\* lines 1655-1680: the root and the "RenderNodes" container
HierRoot(st) ==
    EmitNode(EmitNode(st, "null", Entity("Root", 0, 0, 0), 0),
             "null", Entity("RenderNodes", 0, 0, 0), 0)

\* lines 1681-1709: one container per entry of section_brushes_by_node
RECURSIVE HierRenderNodes(_, _)
HierRenderNodes(st, by_node) ==
    IF by_node = <<>> THEN st
    ELSE LET e  == Head(by_node)
             s1 == EmitNode(st, "null", Entity("RenderNode", e.k, 0, 0), 0)
             s2 == EmitAllOwnProp(s1, "brush",
                       [j \in 1..Len(e.v) |-> Entity("RNBrush", e.k, j - 1, 0)])
         IN  HierRenderNodes(s2, Tail(by_node))

\* lines 1716-1721: for every WM the first object of that name; a later WM
\* replaces an earlier one that matched the same object
RECURSIVE MatchWmToObj(_, _, _, _)
MatchWmToObj(matched, wm_id, names, objs) ==
    IF names = <<>> THEN matched
    ELSE With({i \in 1..Len(objs) :
                  With(ObjGetName(objs[i]),
                       LAMBDA nm : nm.kind = "str" /\ nm.s = Head(names))},
              LAMBDA hits :
                 MatchWmToObj(
                     IF hits = {} THEN matched
                     ELSE DictSet(matched,
                                  (CHOOSE i \in hits : \A j \in hits : i <= j) - 1,
                                  wm_id),
                     wm_id + 1, Tail(names), objs))

\* lines 1757-1758 (2010-2011): the groups of one WM, in decode order
WmBrushEntities(props, wm_id) ==
    With(SelectSeq(props, LAMBDA s : s.wm_index = wm_id),
         LAMBDA mine :
            [j \in 1..Len(mine) |->
                Entity("WMBrush", mine[j].wm_index, mine[j].subnode_index,
                       mine[j].section_index)])

\* lines 1735-1776: the object nodes with the brushes of their WM
RECURSIVE HierObjectNodes(_, _, _, _, _)
HierObjectNodes(st, i, nobjs, matched, props) ==
    IF i >= nobjs THEN st
    ELSE LET s1 == EmitOwnProp(st, "object", Entity("Object", i, 0, 0))
             s2 == IF DictHas(matched, i)
                   THEN EmitAllOwnProp(s1, "brush", WmBrushEntities(props, DictGet(matched, i)))
                   ELSE s1
         IN  HierObjectNodes(s2, i + 1, nobjs, matched, props)

\* lines 1779-1805: one path node per track, one "Key" object per key
RECURSIVE HierKeyframes(_, _, _)
HierKeyframes(st, track, kmap) ==
    IF track >= Len(kmap) THEN st
    ELSE LET keys == kmap[track + 1].v
             s1   == EmitNode(st, "null", Entity("Track", track, 0, 0), 0)
             s2   == EmitAllOwnProp(s1, "object",
                         [j \in 1..Len(keys) |-> Entity("Key", track, j - 1, 0)])
         IN  HierKeyframes(s2, track + 1, kmap)

\* lines 1723-1808: "ObjectsAndWMs" is written only when there are objects,
\* and the keyframe tracks are written inside that branch
HierObjects(st, objs, matched, props, kmap) ==
    IF Len(objs) > 0
    THEN LET s1 == EmitNode(st, "null", Entity("ObjectsAndWMs", 0, 0, 0), 0)
             s2 == HierObjectNodes(s1, 0, Len(objs), matched, props)
         IN  IF Len(kmap) > 0 THEN HierKeyframes(s2, 0, kmap) ELSE s2
    ELSE st

\* a set of n brushes under one container, all with the same propid
HierSharedSet(st, container, kind, n) ==
    IF n > 0
    THEN BumpPropId(EmitAllSharedProp(
             EmitNode(st, "null", Entity(container, 0, 0, 0), 0),
             [i \in 1..n |-> Entity(kind, 0, 0, 0)]))
    ELSE st

\* lines 1811-1837: the sky portals share one propid
HierSkyPortals(st, sky) == HierSharedSet(st, "SkyPortals", "SkyPortalSet", Len(sky))

\* lines 1839-1865 with base_propid += 1 after the loop, as for sky portals
HierOccludersSharedProp(st, occ) ==
    HierSharedSet(st, "Occluders", "Occluder", Len(occ))

\* lines 1839-1865: every occluder has a propid of its own
HierOccluders(st, occ) ==
    IF Len(occ) > 0
    THEN EmitAllOwnProp(EmitNode(st, "null", Entity("Occluders", 0, 0, 0), 0),
                        "brush", [i \in 1..Len(occ) |-> Entity("Occluder", i - 1, 0, 0)])
    ELSE st

\* lines 1867-1893
HierBlockers(st, n) == HierSharedSet(st, "Blockers", "BlockerSet", n)

\* lines 1895-1921
HierParticleBlockers(st, n) ==
    HierSharedSet(st, "ParticleBlockers", "ParticleBlockerSet", n)

\* lines 1654-1924
NodeHierarchy(by_node, objs, matched, props, kmap, sky, occ, nblock, npblock) ==
    LET s0 == [nodes |-> <<>>, base_nodeid |-> 1, base_propid |-> 1, brushindex |-> 0]
        s1 == HierRenderNodes(HierRoot(s0), by_node)
        s2 == HierObjects(s1, objs, matched, props, kmap)
        s3 == HierOccluders(HierSkyPortals(s2, sky), occ)
    IN  HierParticleBlockers(HierBlockers(s3, nblock), npblock).nodes

-----------------------------------------------------------------------------
(* export_rendernodes_to_lta: global property list, lines 1926-2180 *)

\* sorted(section_brushes_by_node.keys())
RECURSIVE SortByKey(_)
SortByKey(d) ==
    IF d = <<>> THEN <<>>
    ELSE LET m == CHOOSE i \in 1..Len(d) : \A j \in 1..Len(d) : d[i].k <= d[j].k
         IN  <<d[m]>> \o SortByKey(SubSeq(d, 1, m - 1) \o SubSeq(d, m + 1, Len(d)))

\* lines 1929-1952
PropsRenderNodes(by_node) ==
    With(SortByKey(by_node),
         LAMBDA s :
            Flatten([n \in 1..Len(s) |->
                [j \in 1..Len(s[n].v) |-> Entity("RNBrush", s[n].k, j - 1, 0)]]))

\* lines 1954-2040
PropsObjects(objs, matched, props) ==
    Flatten([i \in 1..Len(objs) |->
        <<Entity("Object", i - 1, 0, 0)>>
        \o (IF DictHas(matched, i - 1)
            THEN WmBrushEntities(props, DictGet(matched, i - 1)) ELSE <<>>)])

\* lines 2042-2080: written whenever the map is not empty
PropsKeyframes(kmap) ==
    Flatten([t \in 1..Len(kmap) |->
        [j \in 1..Len(kmap[t].v) |-> Entity("Key", t - 1, j - 1, 0)]])

\* lines 2082-2103, 2135-2156, 2157-2178: one entry for a whole set
PropsSharedSet(kind, n) == IF n > 0 THEN <<Entity(kind, 0, 0, 0)>> ELSE <<>>

sOccluder == <<79, 99, 99, 108, 117, 100, 101, 114>>                       \* "Occluder"

\* lines 2107-2111 without the break: the last name with that hash wins
RECURSIVE OccNameNoBreak(_, _, _)
OccNameNoBreak(names, occ_hashcode, occ_name) ==
    IF names = <<>> THEN occ_name
    ELSE OccNameNoBreak(Tail(names), occ_hashcode,
                        IF Head(names).v = occ_hashcode THEN Head(names).k ELSE occ_name)

\* lines 2107-2111: the loop over occluder_names.items(), left at the first
\* name whose hash is occ_hashcode
RECURSIVE OccName(_, _, _)
OccName(names, occ_hashcode, occ_name) ==
    IF names = <<>> THEN occ_name
    ELSE IF Head(names).v = occ_hashcode THEN Head(names).k
    ELSE OccName(Tail(names), occ_hashcode, occ_name)

\* lines 2104-2114: the Name of every occluder proplist
OccluderPropNames(occ, names) ==
    [i \in 1..Len(occ) |-> OccName(names, occ[i].occ_hashcode, sOccluder)]

\* lines 2104-2133
PropsOccluders(occ) == [i \in 1..Len(occ) |-> Entity("Occluder", i - 1, 0, 0)]

\* lines 1926-2180; the first entry is the empty proplist
GlobalPropList(by_node, objs, matched, props, kmap, sky, occ, nblock, npblock) ==
    <<Entity("Empty", 0, 0, 0)>>
    \o PropsRenderNodes(by_node)
    \o PropsObjects(objs, matched, props)
    \o PropsKeyframes(kmap)
    \o PropsSharedSet("SkyPortalSet", Len(sky))
    \o PropsOccluders(occ)
    \o PropsSharedSet("BlockerSet", nblock)
    \o PropsSharedSet("ParticleBlockerSet", npblock)

-----------------------------------------------------------------------------
(* generate_opq_exact, lines 913-969.  A float is an exact rational [n, d] *)
(* with d > 0 in lowest terms; the inputs of the model keep every norm     *)
(* rational and the axes P and Q independent, so that no rounding and no   *)
(* division by zero takes place.                                           *)

Abs(a) == IF a < 0 THEN -a ELSE a

RECURSIVE GCD(_, _)
GCD(a, b) == IF b = 0 THEN a ELSE GCD(b, a % b)

\* the float n / d
Frac(n, d) ==
    With(GCD(Abs(n), Abs(d)),
         LAMBDA g : [n |-> (IF d < 0 THEN -n ELSE n) \div g, d |-> Abs(d) \div g])

Flt(i) == [n |-> i, d |-> 1]

FAdd(x, y) == Frac(x.n * y.d + y.n * x.d, x.d * y.d)
FNeg(x)    == [n |-> -x.n, d |-> x.d]
FSub(x, y) == FAdd(x, FNeg(y))
FMul(x, y) == Frac(x.n * y.n, x.d * y.d)
FDiv(x, y) == Frac(x.n * y.d, x.d * y.n)

\* abs(x) < 1e-10: a denominator of the model is below 1e10
BelowEps10(x) == x.n = 0

\* x > 1e-8
AboveEps8(x) == x.n > 0 /\ x.d \div x.n < 100000000

ISqrt(k) == CHOOSE i \in 0..k : i * i = k

FSqrt(x) == [n |-> ISqrt(x.n), d |-> ISqrt(x.d)]

\* np.array arithmetic on vectors of any length
VAdd(a, b)   == [i \in DOMAIN a |-> FAdd(a[i], b[i])]
VSub(a, b)   == [i \in DOMAIN a |-> FSub(a[i], b[i])]
VScale(a, k) == [i \in DOMAIN a |-> FMul(a[i], k)]
VDivBy(a, k) == [i \in DOMAIN a |-> FDiv(a[i], k)]

\* np.dot, np.linalg.norm, np.cross on 3-vectors
Dot(a, b) == FAdd(FAdd(FMul(a[1], b[1]), FMul(a[2], b[2])), FMul(a[3], b[3]))
Norm(a)   == FSqrt(Dot(a, a))
Cross(a, b) ==
    <<FSub(FMul(a[2], b[3]), FMul(a[3], b[2])),
      FSub(FMul(a[3], b[1]), FMul(a[1], b[3])),
      FSub(FMul(a[1], b[2]), FMul(a[2], b[1]))>>

FVec(v) == [i \in DOMAIN v |-> Flt(v[i])]

\* line 918: area = lambda a, b, c
Area(a, b, c) ==
    FSub(FMul(FSub(b[1], a[1]), FSub(c[2], a[2])),
         FMul(FSub(c[1], a[1]), FSub(b[2], a[2])))

\* lines 917-925
Barycentric(p0, p1, p2, p) ==
    With(Area(p0, p1, p2),
         LAMBDA n :
            IF BelowEps10(n) THEN FVec(<<1, 0, 0>>)
            ELSE With(<<FDiv(Area(p1, p2, p), n), FDiv(Area(p2, p0, p), n)>>,
                      LAMBDA uv : <<uv[1], uv[2], FSub(FSub(Flt(1), uv[1]), uv[2])>>))

\* lines 941-943: bc[0]*p0 + bc[1]*p1 + bc[2]*p2
ToWorld(bc, p0, p1, p2) ==
    VAdd(VAdd(VScale(p0, bc[1]), VScale(p1, bc[2])), VScale(p2, bc[3]))

\* lines 946-949: 1.0 / (|axis| / texel size) if |axis| > 1e-8 else 1.0
TexelScale(axis, size) ==
    With(Norm(axis),
         LAMBDA len : IF AboveEps8(len) THEN FDiv(Flt(1), FDiv(len, Flt(size))) ELSE Flt(1))

\* lines 951-952
UnitOr(axis, fallback) ==
    With(Norm(axis),
         LAMBDA len : IF AboveEps8(len) THEN VDivBy(axis, len) ELSE FVec(fallback))

\* line 967 without the factor -1
FinalQKeepSign(Qn, tq, qscale) == VScale(VScale(Qn, tq), qscale)

\* line 967: Q_final = Qn * tq * qscale * -1
FinalQ(Qn, tq, qscale) == VScale(VScale(VScale(Qn, tq), qscale), Flt(-1))

\* lines 954-969: orthogonalize, rescale
Orthogonalized(O, P0, Q0, width, height) ==
    LET tp == TexelScale(P0, width)
        tq == TexelScale(Q0, height)
        P  == UnitOr(P0, <<1, 0, 0>>)
        Q  == UnitOr(Q0, <<0, 1, 0>>)
        R  == Cross(Q, P)
        Pc == Cross(R, Q)
        Qc == Cross(P, R)
        Pn == VDivBy(Pc, Norm(Pc))
        Qn == VDivBy(Qc, Norm(Qc))
        pscale == FDiv(Flt(1), Dot(P, Pn))
        qscale == FDiv(Flt(1), Dot(Q, Qn))
    IN  [origin |-> O, P |-> VScale(VScale(Pn, tp), pscale), Q |-> FinalQ(Qn, tq, qscale)]

\* line 914 with "and" in place of "or"
IsZeroSizeBoth(width, height) == width = 0 /\ height = 0

\* line 914: width == 0 or height == 0
IsZeroSize(width, height) == width = 0 \/ height = 0

\* lines 913-969; a holds v0, v1, v2 (integer 3-vectors), uv0, uv1, uv2
\* (integer 2-vectors), width and height
generate_opq_exact(a) ==
    IF IsZeroSize(a.width, a.height)
    THEN [origin |-> FVec(<<0, 0, 0>>), P |-> FVec(<<1, 0, 0>>), Q |-> FVec(<<0, 0, 1>>)]
    ELSE LET t0 == FVec(<<a.uv0[1], -a.uv0[2]>>)
             t1 == FVec(<<a.uv1[1], -a.uv1[2]>>)
             t2 == FVec(<<a.uv2[1], -a.uv2[2]>>)
             bc_o == Barycentric(t0, t1, t2, FVec(<<0, 0>>))
             bc_p == Barycentric(t0, t1, t2, FVec(<<1, 0>>))
             bc_q == Barycentric(t0, t1, t2, FVec(<<0, 1>>))
             p0 == FVec(a.v0)
             p1 == FVec(a.v1)
             p2 == FVec(a.v2)
             O  == ToWorld(bc_o, p0, p1, p2)
         IN  Orthogonalized(O, VSub(ToWorld(bc_p, p0, p1, p2), O),
                            VSub(ToWorld(bc_q, p0, p1, p2), O), a.width, a.height)

-----------------------------------------------------------------------------
(* Primitive reads: a file object is its bytes f_data and its cursor f_pos *)

\* f.read(n): the n bytes after the cursor, or as many as are left
FRead(data, pos, n) ==
    [bytes |-> SubSeq(data, pos + 1, Min(pos + n, Len(data))),
     pos   |-> Min(pos + n, Len(data))]

\* little-endian unsigned value of two bytes
U16(b) == b[1] + 256 * b[2]

\* struct.unpack(fmt, buf) for a format of `size` bytes: struct.error unless
\* buf has exactly that many bytes; conv builds the value. `asked` is the
\* number of bytes requested of the file, `used` the number the value was
\* built from
Unpack(fmt, size, buf, conv(_)) ==
    IF Len(buf) # size
    THEN [kind |-> "struct.error", fmt |-> fmt, size |-> size, got |-> Len(buf)]
    ELSE [kind |-> "value", fmt |-> fmt, asked |-> size, used |-> size,
          value |-> conv(buf)]

\* "<I": a 32-bit value as two 16-bit limbs
ConvI(b) == [hi |-> U16(<<b[3], b[4]>>), lo |-> U16(<<b[1], b[2]>>)]

\* "<f": the IEEE 754 bit pattern of the float, as two 16-bit limbs
ConvF(b) == [bits |-> ConvI(b)]

\* "<3f"
Conv3F(b) == [x |-> ConvF(SubSeq(b, 1, 4)), y |-> ConvF(SubSeq(b, 5, 8)),
              z |-> ConvF(SubSeq(b, 9, 12))]

read_int(data, pos) ==
    With(FRead(data, pos, 4),
         LAMBDA r : [pos |-> r.pos, result |-> Unpack("<I", 4, r.bytes, ConvI)])

read_float(data, pos) ==
    With(FRead(data, pos, 4),
         LAMBDA r : [pos |-> r.pos, result |-> Unpack("<f", 4, r.bytes, ConvF)])

\* lines 52-54
Vec3_read(data, pos) ==
    With(FRead(data, pos, 12),
         LAMBDA r : [pos |-> r.pos, result |-> Unpack("<3f", 12, r.bytes, Conv3F)])

\* bytes.decode("utf-8", errors="ignore") on bytes of which none at 128 or
\* above is followed by a continuation byte: those bytes are dropped
DecodeUtf8Ignore(b) == SelectSeq(b, LAMBDA x : x < 128)

\* lines 24-28
read_lithtech_string(data, pos) ==
    With(FRead(data, pos, 2),
         LAMBDA h :
            With(Unpack("<H", 2, h.bytes, U16),
                 LAMBDA length :
                    IF length.kind # "value" THEN [pos |-> h.pos, result |-> length]
                    ELSE IF length.value = 0
                    THEN [pos |-> h.pos,
                          result |-> [kind |-> "value", fmt |-> "str", asked |-> 2,
                                      used |-> 2, value |-> <<>>]]
                    ELSE With(FRead(data, h.pos, length.value),
                              LAMBDA r :
                                 [pos |-> r.pos,
                                  result |-> [kind  |-> "value", fmt |-> "str",
                                              asked |-> 2 + length.value,
                                              used  |-> 2 + Len(r.bytes),
                                              value |-> DecodeUtf8Ignore(r.bytes)]])))

-----------------------------------------------------------------------------
(* Input files *)

Prop(name, data_type, data_size, value) ==
    [name |-> name, data_type |-> data_type, data_size |-> data_size, value |-> value]

StrProp(name, value) == Prop(name, 0, Len(value), value)

nA  == <<97>>          \* "a"
nB  == <<98>>          \* "b"
nC  == <<99>>          \* "c"
kK  == <<75>>          \* "K"
kL  == <<76>>          \* "L"
oAb == <<65, 98>>      \* "Ab"
oaB == <<97, 66>>      \* "aB": another name with the hash of "Ab"
oZ9 == <<90, 57>>      \* "Z9"

sOccluderName1 == sOccluderName \o <<49>>
sOccluderName2 == sOccluderName \o <<50>>

oKeyFramerA == [type |-> "KeyFramer",
                props |-> <<StrProp(sName, nA), StrProp(sBaseKeyName, kK)>>]
oKeyFramerL == [type |-> "KeyFramer", props |-> <<StrProp(sBaseKeyName, kL)>>]
oKeyFramerRaw == [type |-> "KeyFramer", props |-> <<Prop(sBaseKeyName, 9, 0, <<>>)>>]
oOccluderVolume ==
    [type |-> "DynamicOccluderVolume",
     props |-> <<StrProp(sName, nB), StrProp(sOccluderName1, oAb),
                 StrProp(sOccluderName2, <<>>)>>]
oOccluderVolume2 ==
    [type |-> "DynamicOccluderVolume",
     props |-> <<StrProp(sOccluderName1, oaB), StrProp(sOccluderName2, oZ9),
                 Prop(sOccluderName \o <<51>>, 3, 4, <<>>)>>]
oDoor == [type |-> "Door", props |-> <<StrProp(sName, nA), StrProp(sBaseKeyName, kK)>>]
\* properties of the unknown data types 4 and 9 among known ones
oRaw == [type |-> "Door",
         props |-> <<Prop(sName, 4, 5, <<>>), Prop(sRenderGroup, 6, 4, <<>>),
                     Prop(sBaseKeyName, 2, 12, <<>>), Prop(sBaseKeyName, 9, 0, <<>>),
                     Prop(sName, 7, 16, <<>>)>>]

ObjectCandidates ==
    {oKeyFramerA, oKeyFramerL, oKeyFramerRaw, oOccluderVolume, oOccluderVolume2, oDoor}

bKeyFramer1 == [obj_id |-> KeyFramerId, engine_size |-> 0, keys |-> <<0>>]
bKeyFramer2 == [obj_id |-> KeyFramerId, engine_size |-> 100, keys |-> <<1, 3>>]
\* a track whose second key has an unknown key_type
bKeyFramerBad == [obj_id |-> KeyFramerId, engine_size |-> 0, keys |-> <<2, 4, 0>>]
bScatter    == [obj_id |-> ScatterVolumeId, engine_size |-> 4, keys |-> <<>>]
bOther      == [obj_id |-> 7, engine_size |-> 5, keys |-> <<>>]

BlindCandidates == {bKeyFramer1, bKeyFramer2, bKeyFramerBad, bScatter, bOther}

tWall == <<119>>                                   \* "w"
tAnim == <<32>> \o StrUpper(sLightAnimBase) \o <<9>>  \* " LIGHTANIM_BASE\t"

Section(tex0, tri_count) == [tex0 |-> tex0, tri_count |-> tri_count]

SkyPortal(vert_count) == [vert_count |-> vert_count]
Occluder(vert_count, hash) == [vert_count |-> vert_count, occ_hashcode |-> hash]

Node(sections, vertex_count, tris, sky, occ) ==
    [sections |-> sections, vertex_count |-> vertex_count, tris |-> tris,
     skyportals |-> sky, occluders |-> occ]

\* one textured triangle and one sky portal
rnWall == Node(<<Section(tWall, 1)>>, 3, << <<0, 1, 2>> >>, <<SkyPortal(4)>>, <<>>)
\* an animation section before a kept one, and an occluder
rnAnim == Node(<<Section(tAnim, 1), Section(tWall, 1)>>, 4,
               << <<0, 1, 2>>, <<2, 1, 3>> >>, <<>>,
               <<Occluder(4, st_gethash_ic(oAb))>>)
\* nothing but an animation section
rnOnlyAnim == Node(<<Section(sLightAnimBase, 1)>>, 3, << <<0, 1, 2>> >>, <<>>, <<>>)

RenderNodeCandidates == {rnWall, rnAnim}

\* occluders whose hash codes are those of "Z9" and of "c"
rnOccluders == Node(<<Section(tWall, 1)>>, 3, << <<0, 1, 2>> >>, <<>>,
                    <<Occluder(4, st_gethash_ic(oZ9)), Occluder(3, st_gethash_ic(nC))>>)

wmA == [name |-> nA, subnodes |-> <<rnAnim>>]
wmC == [name |-> nC, subnodes |-> <<Node(<<Section(tWall, 1)>>, 3, << <<0, 1, 2>> >>,
                                        <<>>, <<>>)>>]

WMCandidates == {wmA, wmC}

\* a second WM render node that matches an object
wmB == [name |-> nB, subnodes |-> <<rnWall>>]

Poly(vcount) == [vcount |-> vcount]

Dat(objects, blind, render_nodes, wm_nodes, collision, particle) ==
    [objects |-> objects, blind |-> blind, render_nodes |-> render_nodes,
     wm_nodes |-> wm_nodes, collision |-> collision, particle_blockers |-> particle]

-----------------------------------------------------------------------------
(* State *)

NoHash == [hi |-> 0, lo |-> 0]

InitHash == hash_in = <<>> /\ hash_out = NoHash

InitObj ==
    /\ keyframer_basekeynames = <<>>
    /\ scattervolume_names = <<>>
    /\ occluder_names = <<>>
    /\ blind_labels = <<>>
    /\ keyframer_data_map = <<>>

InitDec ==
    /\ world_objects = <<>>
    /\ section_brushes_by_node = <<>>
    /\ wm_names_list = <<>>
    /\ wm_section_props = <<>>
    /\ all_wm_data = <<>>
    /\ skyportals_all = <<>>
    /\ occluders_all = <<>>
    /\ slice_log = <<>>
    /\ polyhedrons = <<>>
    /\ polyBlocks_count = 0
    /\ polypParticleblock_count = 0

InitOut ==
    /\ matched_wm_to_obj = <<>>
    /\ node_hierarchy = <<>>
    /\ globalproplist = <<>>
    /\ occluder_prop_names = <<>>

InitSolver == opq_args = NoResult /\ opq_result = NoResult

InitRead == f_data = <<>> /\ f_pos = 0 /\ read_result = NoResult

\* one phase of main: the pass (1: the dump to the .txt, 2: the export to
\* the .lta) and what it decodes
Phase(pass, name) == [pass |-> pass, phase |-> name]

\* main, lines 2393-2407: the phases of the first pass, in program order
DiagnosticPhases ==
    <<Phase(1, "Header"), Phase(1, "WorldMetadata"), Phase(1, "SpatialTree"),
      Phase(1, "WorldObjects"), Phase(1, "BlindObjects"), Phase(1, "RenderGraph")>>

\* lines 1647-1651 with the particle blockers decoded ahead of the render graph
ExportPhasesBlockersFirst(err) ==
    <<Phase(2, "Header"), Phase(2, "WorldMetadata"), Phase(2, "WorldObjects"),
      Phase(2, "ParticleBlockers"), Phase(2, "RenderGraph")>>
    \o (IF err THEN <<>> ELSE <<Phase(2, "CollisionPolygons")>>)

\* main, lines 2411-2413, and export_rendernodes_to_lta, lines 1326-1651: the
\* phases of the second pass; an IndexError ends it inside the render graph
ExportPhases(err) ==
    <<Phase(2, "Header"), Phase(2, "WorldMetadata"), Phase(2, "WorldObjects"),
      Phase(2, "RenderGraph")>>
    \o (IF err THEN <<>>
        ELSE <<Phase(2, "CollisionPolygons"), Phase(2, "ParticleBlockers")>>)

InitBlockers == read_blockers = NoResult /\ written_blockers = NoResult

InitSurfOut ==
    /\ global_surface_data = <<>>
    /\ surface_polyhedrons = <<>>
    /\ surface_hierarchy = <<>>
    /\ surface_proplist = <<>>

InitAux == InitBlockers /\ call_log = <<>> /\ worldtree = <<>> /\ InitSurfOut

\* phases: those main has started before the state a specification begins in
InitTrace(phases) ==
    /\ phase_log = phases
    /\ blind_error = NoResult
    /\ obj_cursor_log = <<>>
    /\ blind_cursor_log = <<>>
    /\ lta_cursor_log = <<>>

-----------------------------------------------------------------------------
(* Actions *)

\* a call of st_gethash_ic
HashString ==
    /\ pc = "hash"
    /\ hash_out' = st_gethash_ic(hash_in)
    /\ pc' = "hashed"
    /\ UNCHANGED <<auxVars, dat, hash_in, solverVars, readVars, traceVars, objVars, decVars, outVars>>

\* a call of generate_opq_exact (write_polyhedron, lines 1043-1044)
SolveBasis ==
    /\ pc = "solve"
    /\ opq_result' = generate_opq_exact(opq_args)
    /\ pc' = "solved"
    /\ UNCHANGED <<auxVars, dat, hashVars, opq_args, readVars, traceVars, objVars, decVars, outVars>>

\* a primitive read: the cursor moves past the bytes f.read returned, and a
\* raised exception ends the run
ReadStep(r) ==
    /\ pc = "read"
    /\ f_pos' = r.pos
    /\ read_result' = r.result
    /\ pc' = IF r.result.kind = "value" THEN "read" ELSE "error"
    /\ UNCHANGED <<auxVars, dat, hashVars, solverVars, f_data, traceVars, objVars, decVars, outVars>>

\* struct.unpack("<I", f.read(4)), e.g. line 502
ReadInt == ReadStep(read_int(f_data, f_pos))

\* struct.unpack("<f", f.read(4)), e.g. line 534
ReadFloat == ReadStep(read_float(f_data, f_pos))

\* Vec3.read(f), e.g. line 532
ReadVec3 == ReadStep(Vec3_read(f_data, f_pos))

\* read_lithtech_string(f), e.g. line 443
ReadString == ReadStep(read_lithtech_string(f_data, f_pos))

\* a phase of main that leaves nothing the export uses
PhaseStep(from, phase, to) ==
    /\ pc = from
    /\ phase_log' = Append(phase_log, phase)
    /\ pc' = to
    /\ UNCHANGED <<auxVars, dat, hashVars, solverVars, readVars, blind_error, obj_cursor_log,
                   blind_cursor_log, lta_cursor_log, objVars, decVars, outVars>>

\* main, lines 2393-2395
ReadHeader == PhaseStep("header", DiagnosticPhases[1], "world_info")

\* main, lines 2397-2399
ReadWorldInfo == PhaseStep("world_info", DiagnosticPhases[2], "world_tree")

\* main, lines 2401-2403
ReadWorldTree == PhaseStep("world_tree", DiagnosticPhases[3], "objects")

\* main, line 2407: read_render_data prints the render graph and skips its
\* geometry
ReadRenderData == PhaseStep("render", DiagnosticPhases[6], "export")

\* main, line 2405
ReadWorldObjects ==
    /\ pc = "objects"
    /\ \E r \in {read_world_objects(dat.objects)} :
           /\ keyframer_basekeynames' = r.kf
           /\ scattervolume_names' = r.sv
           /\ occluder_names' = r.occ
    /\ obj_cursor_log' = CursorLog(FALSE, dat.objects)
    /\ phase_log' = Append(phase_log, DiagnosticPhases[4])
    /\ pc' = "blind"
    /\ UNCHANGED <<auxVars, dat, hashVars, solverVars, readVars, blind_error,
                   blind_cursor_log, lta_cursor_log, blind_labels, keyframer_data_map,
                   decVars, outVars>>

\* main, line 2406; a ValueError ends the run
ReadBlindObjects ==
    /\ pc = "blind"
    /\ \E r \in {read_blind_objects(dat.blind, keyframer_basekeynames,
                                     scattervolume_names)} :
           /\ blind_labels' = r.labels
           /\ keyframer_data_map' = IF r.err THEN <<>> ELSE r.map
           /\ blind_error' = r.error
           /\ blind_cursor_log' = r.cursor_log
           /\ pc' = IF r.err THEN "error" ELSE "render"
    /\ phase_log' = Append(phase_log, DiagnosticPhases[5])
    /\ UNCHANGED <<auxVars, dat, hashVars, solverVars, readVars, obj_cursor_log,
                   lta_cursor_log, keyframer_basekeynames, scattervolume_names,
                   occluder_names, decVars, outVars>>

\* export_rendernodes_to_lta, lines 1322-1651: the polyhedron list;
\* an IndexError ends the run
ExportPolyhedronList ==
    /\ pc = "export"
    /\ \E objs \in {read_world_objects_lta(dat.objects)},
          a2 \in {ReadWMNodes(
                      ReadRenderNodes(
                          [slice_log |-> <<>>, polyhedrons |-> <<>>,
                           section_brushes_by_node |-> <<>>,
                           skyportals_all |-> skyportals_all,
                           occluders_all |-> occluders_all,
                           wm_names_list |-> <<>>, wm_section_props |-> <<>>,
                           wm_data |-> <<>>, all_wm_data |-> <<>>, err |-> FALSE],
                          0, dat.render_nodes),
                      0, dat.wm_nodes)} :
           /\ world_objects' = objs
           /\ lta_cursor_log' = CursorLog(TRUE, dat.objects)
           /\ phase_log' = phase_log \o ExportPhases(a2.err)
           /\ slice_log' = a2.slice_log
           /\ section_brushes_by_node' = a2.section_brushes_by_node
           /\ wm_names_list' = a2.wm_names_list
           /\ wm_section_props' = a2.wm_section_props
           /\ all_wm_data' = a2.all_wm_data
           /\ skyportals_all' = a2.skyportals_all
           /\ occluders_all' = a2.occluders_all
           /\ IF a2.err
              THEN /\ polyhedrons' = a2.polyhedrons
                   /\ UNCHANGED <<polyBlocks_count, polypParticleblock_count>>
                   /\ pc' = "error"
              ELSE /\ polyhedrons' = a2.polyhedrons
                                     \o WmPolyhedrons(objs, a2.all_wm_data)
                                     \o SkyPortalPolyhedrons(a2.skyportals_all)
                                     \o OccluderPolyhedrons(a2.occluders_all)
                                     \o PhysicsPolyhedrons(dat.collision)
                                     \o ParticleBlockerPolyhedrons(dat.particle_blockers)
                   /\ polyBlocks_count' = Len(dat.collision)
                   /\ polypParticleblock_count' = Len(dat.particle_blockers)
                   /\ pc' = "hierarchy"
    /\ UNCHANGED <<auxVars, dat, hashVars, solverVars, readVars, blind_error, obj_cursor_log,
                   blind_cursor_log, objVars, outVars>>

\* export_rendernodes_to_lta, lines 1654-1924: the node hierarchy
ExportNodeHierarchy ==
    /\ pc = "hierarchy"
    /\ \E matched \in {MatchWmToObj(<<>>, 0, wm_names_list, world_objects)} :
           /\ matched_wm_to_obj' = matched
           /\ node_hierarchy' =
                  NodeHierarchy(section_brushes_by_node, world_objects, matched,
                                wm_section_props, keyframer_data_map, skyportals_all,
                                occluders_all, polyBlocks_count, polypParticleblock_count)
    /\ pc' = "proplist"
    /\ UNCHANGED <<auxVars, dat, hashVars, solverVars, readVars, traceVars, objVars, decVars, globalproplist,
                   occluder_prop_names>>

\* export_rendernodes_to_lta, lines 1926-2181: the global property list
ExportGlobalPropList ==
    /\ pc = "proplist"
    /\ globalproplist' =
           GlobalPropList(section_brushes_by_node, world_objects, matched_wm_to_obj,
                          wm_section_props, keyframer_data_map, skyportals_all,
                          occluders_all, polyBlocks_count, polypParticleblock_count)
    /\ occluder_prop_names' = OccluderPropNames(occluders_all, occluder_names)
    /\ pc' = "done"
    /\ UNCHANGED <<auxVars, dat, hashVars, solverVars, readVars, traceVars, objVars, decVars, matched_wm_to_obj, node_hierarchy>>

-----------------------------------------------------------------------------
(* Spec: a conversion run, main lines 2385-2417 *)

PipelineObjects == {oKeyFramerA, oOccluderVolume, oDoor}

PipelineBlinds == {<<>>, <<bOther, bKeyFramer2, bKeyFramer1>>}

\* numbers of collision polygons and of particle blockers
PipelinePolys == {<<0, 0>>, <<2, 0>>, <<1, 2>>}

Init ==
    /\ pc = "objects"
    /\ \E o \in SeqsUpTo(PipelineObjects, MaxObjects),
          b \in PipelineBlinds,
          r \in SeqsUpTo(RenderNodeCandidates, MaxRenderNodes),
          w \in SeqsUpTo(WMCandidates, MaxWMNodes),
          c \in PipelinePolys :
           dat = Dat(o, b, r, w, [i \in 1..c[1] |-> Poly(4)], [i \in 1..c[2] |-> Poly(3)])
    /\ InitHash /\ InitObj /\ InitDec /\ InitOut
    /\ InitSolver /\ InitRead /\ InitTrace(SubSeq(DiagnosticPhases, 1, 3)) /\ InitAux

Next ==
    \/ ReadWorldObjects
    \/ ReadBlindObjects
    \/ ReadRenderData
    \/ ExportPolyhedronList
    \/ ExportNodeHierarchy
    \/ ExportGlobalPropList

Spec == Init /\ [][Next]_vars

-----------------------------------------------------------------------------
(* SpecObjects: the WorldObjects and BlindObjects phases on richer files *)

InitObjects ==
    /\ pc = "objects"
    /\ \E o \in SeqsUpTo(ObjectCandidates, MaxObjects),
          b \in SeqsUpTo(BlindCandidates, MaxBlind) :
           dat = Dat(o, b, <<>>, <<>>, <<>>, <<>>)
    /\ InitHash /\ InitObj /\ InitDec /\ InitOut
    /\ InitSolver /\ InitRead /\ InitTrace(SubSeq(DiagnosticPhases, 1, 3)) /\ InitAux

NextObjects == ReadWorldObjects \/ ReadBlindObjects

SpecObjects == InitObjects /\ [][NextObjects]_vars

-----------------------------------------------------------------------------
(* SpecGeom: the geometry reconstruction of one node, read as a render     *)
(* node or as the sub-node of a WM render node                             *)

TexCandidates == {tWall, tAnim}

TriCandidates == {<<0, 1, 2>>, <<2, 1, 3>>}

GeomSections ==
    SeqsUpTo({Section(x, c) : x \in TexCandidates, c \in 0..MaxTris}, MaxSections)

GeomTris == SeqsUpTo(TriCandidates, MaxTris)

InitGeom ==
    /\ pc = "export"
    /\ \E s \in GeomSections, v \in {3, 4}, t \in GeomTris, as_wm \in BOOLEAN :
           dat = IF as_wm
                 THEN Dat(<<oDoor>>, <<>>, <<>>,
                          <<[name |-> nA, subnodes |-> <<Node(s, v, t, <<>>, <<>>)>>]>>,
                          <<>>, <<>>)
                 ELSE Dat(<<oDoor>>, <<>>, <<Node(s, v, t, <<>>, <<>>)>>, <<>>, <<>>, <<>>)
    /\ InitHash /\ InitObj /\ InitDec /\ InitOut
    /\ InitSolver /\ InitRead /\ InitTrace(DiagnosticPhases) /\ InitAux

NextGeom == ExportPolyhedronList

SpecGeom == InitGeom /\ [][NextGeom]_vars

-----------------------------------------------------------------------------
(* SpecHash: st_gethash_ic on strings of letters *)

Letters == {65, 70, 79, 90, 97, 102, 111, 122}     \* A F O Z a f o z

InitHashStrings ==
    /\ pc = "hash"
    /\ hash_in \in SeqsUpTo(Letters, MaxStrLen)
    /\ hash_out = NoHash
    /\ dat = Dat(<<>>, <<>>, <<>>, <<>>, <<>>, <<>>)
    /\ InitObj /\ InitDec /\ InitOut
    /\ InitSolver /\ InitRead /\ InitTrace(<<>>) /\ InitAux

NextHash == HashString

SpecHash == InitHashStrings /\ [][NextHash]_vars

-----------------------------------------------------------------------------
(* SpecHashAscii: st_gethash_ic on strings with characters around 'A' *)

\* space . 0 9 @ A Z _ a z ~
AsciiChars == {32, 46, 48, 57, 64, 65, 90, 95, 97, 122, 126}

InitHashAscii ==
    /\ pc = "hash"
    /\ hash_in \in SeqsUpTo(AsciiChars, MaxStrLen)
    /\ hash_out = NoHash
    /\ dat = Dat(<<>>, <<>>, <<>>, <<>>, <<>>, <<>>)
    /\ InitObj /\ InitDec /\ InitOut
    /\ InitSolver /\ InitRead /\ InitTrace(<<>>) /\ InitAux

SpecHashAscii == InitHashAscii /\ [][NextHash]_vars

-----------------------------------------------------------------------------
(* Properties of the node hierarchy and the global property list *)

PropIds == {node_hierarchy[i].propid : i \in DOMAIN node_hierarchy} \ {0}

SharedSetKinds == {"SkyPortalSet", "BlockerSet", "ParticleBlockerSet"}

\* C1: after a full export the number of property-list entries, the leading
\* empty one not counted, equals the number of distinct non-zero propids
\* carried by nodes of the hierarchy.
C1_EntriesMatchPropIds ==
    pc = "done" => Len(globalproplist) - 1 = Cardinality(PropIds)

\* C2: for every p >= 1 the p-th entry of the global property list (the empty
\* entry being position 0) describes the entity of the hierarchy node(s)
\* carrying propid p.
C2_EntriesInPropIdOrder ==
    pc = "done" =>
        \A i \in DOMAIN node_hierarchy :
            node_hierarchy[i].propid >= 1 =>
                /\ node_hierarchy[i].propid + 1 <= Len(globalproplist)
                /\ globalproplist[node_hierarchy[i].propid + 1] = node_hierarchy[i].entity

\* C3: the nodeids written by the hierarchy pass strictly increase in the
\* order the nodes are written.
C3_NodeIdsIncrease ==
    \A i, j \in DOMAIN node_hierarchy :
        i < j => node_hierarchy[i].nodeid < node_hierarchy[j].nodeid

\* a finished hierarchy with render-node brushes, objects, keys and sets
C3_Witness ==
    /\ pc = "done"
    /\ \A k \in {"RNBrush", "Object", "WMBrush", "Key", "SkyPortalSet", "Occluder",
                  "BlockerSet", "ParticleBlockerSet"} :
           \E i \in DOMAIN node_hierarchy : node_hierarchy[i].entity.kind = k

\* C4 as stated: the non-zero propids strictly increase in the order the
\* nodes are written, none is used twice.
C4_PropIdsStrictlyIncrease ==
    \A i, j \in DOMAIN node_hierarchy :
        (i < j /\ node_hierarchy[i].propid # 0 /\ node_hierarchy[j].propid # 0)
            => node_hierarchy[i].propid < node_hierarchy[j].propid

\* C4: the non-zero propids never decrease in the order the nodes are written,
\* and two nodes carry the same non-zero propid only when both are brushes of
\* the same sky-portal, collision or particle-blocker set.
C4_PropIdsIncreaseExceptSharedSets ==
    \A i, j \in DOMAIN node_hierarchy :
        (i < j /\ node_hierarchy[i].propid # 0 /\ node_hierarchy[j].propid # 0)
            => \/ node_hierarchy[i].propid < node_hierarchy[j].propid
               \/ /\ node_hierarchy[i].propid = node_hierarchy[j].propid
                  /\ node_hierarchy[i].entity = node_hierarchy[j].entity
                  /\ node_hierarchy[i].entity.kind \in SharedSetKinds

\* two occluders with propids of their own after two brushes of a shared set
C4_Witness ==
    /\ pc = "done"
    /\ \E i, j \in DOMAIN node_hierarchy :
           /\ i < j
           /\ node_hierarchy[i].entity.kind = "Occluder"
           /\ node_hierarchy[j].entity.kind = "Occluder"
    /\ \E i, j \in DOMAIN node_hierarchy :
           /\ i < j
           /\ node_hierarchy[i].entity.kind \in SharedSetKinds
           /\ node_hierarchy[i].propid = node_hierarchy[j].propid

-----------------------------------------------------------------------------
(* Properties of the WorldObjects and BlindObjects phases *)

\* the labels given to keyframe-track blind objects, in the order given
KeyFramerLabels == SelectSeq(blind_labels, LAMBDA l : l.tag = "KeyFramer")

\* the 0-based positions in the file of the blind objects tagged as keyframe
\* tracks, in increasing order
RECURSIVE KeyFramerPositions(_)
KeyFramerPositions(n) ==
    IF n = 0 THEN <<>>
    ELSE KeyFramerPositions(n - 1)
         \o (IF dat.blind[n].obj_id = KeyFramerId THEN <<n - 1>> ELSE <<>>)

\* C5: after the BlindObjects phase the i-th blind object tagged as a keyframe
\* track (i < min(N, M)) is labelled with the i-th collected BaseKeyName,
\* whatever blind objects of other tags lie between them.
C5_TrackLabelledByPosition ==
    pc \in {"render", "error"} =>
        /\ Len(KeyFramerLabels) <= Len(KeyFramerPositions(Len(dat.blind)))
        /\ \A i \in 1..Len(KeyFramerLabels) :
               /\ KeyFramerLabels[i].obj_idx = KeyFramerPositions(Len(dat.blind))[i]
               /\ i <= Len(keyframer_basekeynames) =>
                      KeyFramerLabels[i].name = keyframer_basekeynames[i]

\* two tracks with another blind object between them take two different names
C5_Witness ==
    /\ pc = "render"
    /\ Len(keyframer_basekeynames) = 2
    /\ keyframer_basekeynames[1] # keyframer_basekeynames[2]
    /\ Len(dat.blind) = 3
    /\ dat.blind[1].obj_id = KeyFramerId
    /\ dat.blind[2].obj_id \notin {KeyFramerId, ScatterVolumeId}
    /\ dat.blind[3].obj_id = KeyFramerId
    /\ Len(KeyFramerLabels) = 2
    /\ KeyFramerLabels[2].name = keyframer_basekeynames[2]

\* the string values of the OccluderName* properties of the occluder-type
\* objects of the file
OccluderNameValues ==
    UNION {{dat.objects[i].props[j].value :
               j \in {k \in DOMAIN dat.objects[i].props :
                         /\ StartsWith(dat.objects[i].props[k].name, sOccluderName)
                         /\ dat.objects[i].props[k].data_type = 0}} :
           i \in {k \in DOMAIN dat.objects : dat.objects[k].type = "DynamicOccluderVolume"}}

InOccluderTable(name) ==
    /\ DictHas(occluder_names, name)
    /\ DictGet(occluder_names, name) = st_gethash_ic(name)

\* C10 as stated: after the WorldObjects phase every occluder name of the file,
\* an empty one included, is in the table with its st_gethash_ic value.
C10_EveryOccluderNameInTable ==
    pc # "objects" => \A name \in OccluderNameValues : InOccluderTable(name)

\* C10: after the WorldObjects phase every non-empty occluder name of the file
\* is a key of the occluder name table, mapped to exactly st_gethash_ic(name);
\* an empty name is not entered.
C10_NonEmptyOccluderNamesInTable ==
    pc # "objects" =>
        /\ \A name \in OccluderNameValues \ {<<>>} : InOccluderTable(name)
        /\ ~DictHas(occluder_names, <<>>)

\* two names of different spelling and equal hash, next to an empty name
C10_Witness ==
    /\ pc = "blind"
    /\ {oAb, oaB, <<>>} \subseteq OccluderNameValues
    /\ InOccluderTable(oAb)
    /\ InOccluderTable(oaB)
    /\ st_gethash_ic(oAb) # NoHash

-----------------------------------------------------------------------------
(* Properties of the geometry reconstruction *)

\* the retained geometry groups: those of the render nodes and of the
\* placeable sub-nodes, written or kept for writing
GeometryGroups ==
    {polyhedrons[i] : i \in {k \in DOMAIN polyhedrons : polyhedrons[k].kind \in {"RN", "WM"}}}
    \cup UNION {Range(all_wm_data[w].v) : w \in DOMAIN all_wm_data}

\* the decoded node a group was built from
NodeOf(g) ==
    IF g.kind = "RN" THEN dat.render_nodes[g.node + 1]
    ELSE dat.wm_nodes[g.node + 1].subnodes[g.subnode + 1]

\* C6: every index of every remapped triangle of every retained group is
\* smaller than the length of the group's local vertex list.
C6_LocalIndicesInRange ==
    \A g \in GeometryGroups :
        \A k \in DOMAIN g.local_tris :
            \A c \in 1..3 :
                g.local_tris[k].v[c] \in 0..(Len(g.local_verts) - 1)

\* a group of two triangles that share vertices, first met in the order 2 1 3 0
C6_Witness ==
    /\ pc = "hierarchy"
    /\ \E g \in GeometryGroups :
           /\ g.local_verts = <<2, 1, 3, 0>>
           /\ Len(g.local_tris) = 2
           /\ g.local_tris[2].v = <<3, 1, 0>>

\* the section's primary texture name, trimmed, is the marker in some case
IsMarkerName(tex0) == StrUpper(Strip(tex0)) = StrUpper(sLightAnimBase)

\* the positions in the triangle buffer that section j (1-based) declares
DeclaredPositions(node, j) ==
    {p \in 0..(Len(node.tris) - 1) :
        /\ p >= SumSeq([k \in 1..(j - 1) |-> node.sections[k].tri_count])
        /\ p <  SumSeq([k \in 1..j |-> node.sections[k].tri_count])}

\* the sections (1-based) of a node that carry the marker name
MarkerSections(node) ==
    {j \in DOMAIN node.sections : IsMarkerName(node.sections[j].tex0)}

\* C7: a section whose trimmed primary texture name equals lightanim_base in
\* any case gives no triangle and no vertex to any group: no group is built
\* from it, no group holds a triangle of its range, and the vertices of a
\* group are those its own triangles reference.
C7_MarkerSectionContributesNothing ==
    \A g \in GeometryGroups :
        /\ (g.section + 1) \notin MarkerSections(NodeOf(g))
        /\ \A k \in DOMAIN g.local_tris :
               /\ g.local_tris[k].pos \in DeclaredPositions(NodeOf(g), g.section + 1)
               /\ \A j \in MarkerSections(NodeOf(g)) :
                      g.local_tris[k].pos \notin DeclaredPositions(NodeOf(g), j)
        /\ Range(g.local_verts) =
               UNION {Range(NodeOf(g).tris[g.local_tris[k].pos + 1]) :
                         k \in DOMAIN g.local_tris}

\* an upper-case, padded marker section with a triangle, before a retained
\* section whose triangle shares two of its vertices
C7_Witness ==
    /\ pc = "hierarchy"
    /\ \E g \in GeometryGroups :
           /\ g.section = 1
           /\ NodeOf(g).sections[1].tex0 = tAnim
           /\ NodeOf(g).sections[1].tri_count = 1
           /\ NodeOf(g).tris = << <<0, 1, 2>>, <<2, 1, 3>> >>
           /\ g.local_verts = <<2, 1, 3>>

\* C8: for every render node and placeable sub-node the slices of all sections
\* hold min(expected, actual) triangles in total, and every triangle read lies
\* inside the decoded triangle buffer.
C8_SlicesWithinBuffer ==
    \A i \in DOMAIN slice_log :
        /\ SumSeq([j \in DOMAIN slice_log[i].slices |-> Len(slice_log[i].slices[j])])
               = Min(slice_log[i].expected, slice_log[i].actual)
        /\ \A j \in DOMAIN slice_log[i].slices :
               \A k \in DOMAIN slice_log[i].slices[j] :
                   slice_log[i].slices[j][k].pos \in 0..(slice_log[i].actual - 1)

\* more triangles declared than decoded: the second of two sections declares
\* two triangles and gets the one that is left
C8_Witness ==
    /\ pc # "export"
    /\ \E i \in DOMAIN slice_log :
           /\ slice_log[i].expected > slice_log[i].actual
           /\ slice_log[i].actual > 0
           /\ Len(slice_log[i].slices) = 2
           /\ Len(slice_log[i].slices[1]) = 1
           /\ Len(slice_log[i].slices[2]) = 1
           /\ slice_log[i].expected = 3
           /\ slice_log[i].actual = 2

-----------------------------------------------------------------------------
(* Properties of st_gethash_ic *)

\* C9: on strings of the letters A-Z and a-z, st_gethash_ic gives the same
\* value for a string, for its upper-case form and for its lower-case form.
C9_HashIgnoresCase ==
    pc = "hashed" =>
        /\ hash_out = st_gethash_ic(StrUpper(hash_in))
        /\ hash_out = st_gethash_ic(StrLower(hash_in))

\* "Foo" hashed, a string that is neither its upper- nor its lower-case form
C9_Witness ==
    /\ pc = "hashed"
    /\ hash_in = <<70, 111, 111>>
    /\ StrUpper(hash_in) # hash_in
    /\ StrLower(hash_in) # hash_in
    /\ hash_out # NoHash

-----------------------------------------------------------------------------
(* SpecSolver: generate_opq_exact on right triangles with legs along the   *)
(* axes and texture coordinates along the axes of UV space                 *)

Unit3(i) == [k \in 1..3 |-> IF k = i THEN 1 ELSE 0]

Plus3(a, b, k) == [i \in 1..3 |-> a[i] + k * b[i]]

\* v0, v1, v2: a corner and two legs along different axes
SolverTriangles ==
    {<<v0, Plus3(v0, Unit3(ax[1]), a), Plus3(v0, Unit3(ax[2]), b)>> :
        v0 \in {<<0, 0, 0>>, <<1, 2, 3>>},
        ax \in {<<1, 3>>, <<3, 1>>, <<1, 2>>},
        a \in {1, -2}, b \in {1, 2}}

\* uv0, uv1, uv2: the last one is a degenerate UV triangle
SolverUVs ==
    {<< <<0, 0>>, <<1, 0>>, <<0, 1>> >>, << <<0, 0>>, <<0, 1>>, <<1, 0>> >>,
     << <<0, 0>>, <<2, 0>>, <<0, 2>> >>, << <<1, 1>>, <<1, 1>>, <<1, 1>> >>}

SolverSizes == {0, 1, 4}

InitSolverArgs ==
    /\ pc = "solve"
    /\ \E tri \in SolverTriangles, uv \in SolverUVs, w \in SolverSizes, h \in SolverSizes :
           opq_args = [v0 |-> tri[1], v1 |-> tri[2], v2 |-> tri[3],
                       uv0 |-> uv[1], uv1 |-> uv[2], uv2 |-> uv[3],
                       width |-> w, height |-> h]
    /\ opq_result = NoResult
    /\ dat = Dat(<<>>, <<>>, <<>>, <<>>, <<>>, <<>>)
    /\ InitHash /\ InitObj /\ InitDec /\ InitOut /\ InitRead /\ InitTrace(<<>>) /\ InitAux

NextSolver == SolveBasis

SpecSolver == InitSolverArgs /\ [][NextSolver]_vars

-----------------------------------------------------------------------------
(* Properties of generate_opq_exact *)

\* C12: with texel width 0 or texel height 0 the solver returns exactly
\* origin (0,0,0), P (1,0,0), Q (0,0,1), whatever the triangle and its UVs.
C12_ZeroSizeGivesFixedBasis ==
    (pc = "solved" /\ (opq_args.width = 0 \/ opq_args.height = 0)) =>
        /\ opq_result.origin = FVec(<<0, 0, 0>>)
        /\ opq_result.P = FVec(<<1, 0, 0>>)
        /\ opq_result.Q = FVec(<<0, 0, 1>>)

\* height 0 alone, on a triangle away from the origin whose basis would
\* otherwise differ
C12_Witness ==
    /\ pc = "solved"
    /\ opq_args.width = 4
    /\ opq_args.height = 0
    /\ opq_args.v0 = <<1, 2, 3>>
    /\ opq_args.v1 = <<1, 2, 1>>
    /\ opq_result.Q = FVec(<<0, 0, 1>>)
    /\ generate_opq_exact([opq_args EXCEPT !.height = 1]).origin # FVec(<<0, 0, 0>>)

\* the triangle of C13: UV (0,0),(1,0),(0,1), texel size (1,1), positions
\* (0,0,0),(1,0,0),(0,0,1)
IsUnitRightTriangle ==
    opq_args = [v0 |-> <<0, 0, 0>>, v1 |-> <<1, 0, 0>>, v2 |-> <<0, 0, 1>>,
                uv0 |-> <<0, 0>>, uv1 |-> <<1, 0>>, uv2 |-> <<0, 1>>,
                width |-> 1, height |-> 1]

\* a and b are non-zero and point the same way: a = k * b with k > 0
SameDirection(a, b) ==
    /\ Cross(a, b) = FVec(<<0, 0, 0>>)
    /\ Dot(a, b).n > 0

-----------------------------------------------------------------------------
(* The rolling hash of st_gethash_ic, computed on base-256 digits *)

\* a number of 0..2^32-1 as four digits of base 256, lowest first
BytesOf(n) == <<n.lo % 256, n.lo \div 256, n.hi % 256, n.hi \div 256>>

\* (n * 29 + d) mod 2^32 by long multiplication on the digits of n, for a
\* small integer d of either sign; a borrow is a negative carry
RollingStep(b, d) ==
    LET t1 == b[1] * 29 + d
        t2 == b[2] * 29 + (t1 - (t1 % 256)) \div 256
        t3 == b[3] * 29 + (t2 - (t2 % 256)) \div 256
        t4 == b[4] * 29 + (t3 - (t3 % 256)) \div 256
    IN  <<t1 % 256, t2 % 256, t3 % 256, t4 % 256>>

\* code(toupper(ch)) - code('A') for an ASCII character
UpperOffset(ch) == (IF ch >= 97 /\ ch <= 122 THEN ch - 32 ELSE ch) - 65

\* the rolling hash folded over the characters of s from n = 0
RECURSIVE RollingHash(_, _)
RollingHash(b, s) ==
    IF s = <<>> THEN b ELSE RollingHash(RollingStep(b, UpperOffset(Head(s))), Tail(s))

\* C11: st_gethash_ic(s) is n := (n * 29 + (code(toupper(ch)) - code('A')))
\* mod 2^32 folded over s from n = 0, and lies in 0..2^32-1, also when a
\* character's code is below that of 'A'.
C11_HashIsRollingHashMod32 ==
    pc = "hashed" =>
        /\ hash_out.hi \in 0..(Limb - 1)
        /\ hash_out.lo \in 0..(Limb - 1)
        /\ BytesOf(hash_out) = RollingHash(<<0, 0, 0, 0>>, hash_in)

\* "0a." hashed: digit and punctuation below 'A' around a letter; the first
\* step alone gives 2^32 - 17
C11_Witness ==
    /\ pc = "hashed"
    /\ hash_in = <<48, 97, 46>>
    /\ st_gethash_ic(<<48>>) = [hi |-> 65535, lo |-> 65519]
    /\ hash_out = [hi |-> 65535, lo |-> 51220]

-----------------------------------------------------------------------------
(* Properties of the blind-object decoder, checked under SpecObjects       *)

\* the blind objects (1-based) holding a key whose key_type is not 0..3
BadBlindObjects ==
    {i \in 1..Len(dat.blind) :
        /\ dat.blind[i].obj_id = KeyFramerId
        /\ \E k \in 1..Len(dat.blind[i].keys) : dat.blind[i].keys[k] \notin 0..3}

FirstBadObject == CHOOSE i \in BadBlindObjects : \A j \in BadBlindObjects : i <= j

FirstBadKey ==
    CHOOSE k \in 1..Len(dat.blind[FirstBadObject].keys) :
        /\ dat.blind[FirstBadObject].keys[k] \notin 0..3
        /\ \A m \in 1..(k - 1) : dat.blind[FirstBadObject].keys[m] \in 0..3

\* C14: when a key record carries an interpolation-type code other than
\* 0..3, the decoding of the blind objects ends in a ValueError raised at
\* that key of that object; the objects before it are the only ones decoded
\* to their end, no track is handed to the export, and the export never
\* starts
C14_UnknownKeyTypeStopsDecoding ==
    (pc \notin {"objects", "blind"} /\ BadBlindObjects # {}) =>
        /\ pc = "error"
        /\ blind_error = [kind     |-> "ValueError",
                          obj_idx  |-> FirstBadObject - 1,
                          key_idx  |-> FirstBadKey - 1,
                          key_type |-> dat.blind[FirstBadObject].keys[FirstBadKey]]
        /\ Len(blind_cursor_log) = FirstBadObject - 1
        /\ keyframer_data_map = <<>>

\* a bad key in the middle of a track that is followed by another object
C14_Witness ==
    /\ pc = "error"
    /\ Len(dat.blind) = 2
    /\ dat.blind[1] = bKeyFramerBad
    /\ dat.blind[2] = bKeyFramer1
    /\ blind_error.kind = "ValueError"
    /\ blind_error.key_idx = 1
    /\ blind_cursor_log = <<>>

-----------------------------------------------------------------------------
(* Vertex indices out of range, checked under SpecGeom                     *)

\* the decoded geometry nodes, each with the (kind, node, subnode) a group
\* built from it carries
DecodedNodes ==
    {[kind |-> "RN", node |-> i - 1, subnode |-> 0, n |-> dat.render_nodes[i]] :
        i \in DOMAIN dat.render_nodes}
    \cup UNION {{[kind |-> "WM", node |-> w - 1, subnode |-> s - 1,
                  n |-> dat.wm_nodes[w].subnodes[s]] :
                    s \in DOMAIN dat.wm_nodes[w].subnodes} : w \in DOMAIN dat.wm_nodes}

\* the positions in the triangle buffer of a node that a retained section
\* declares and whose triangle references an index >= vertex_count
OutOfRangeTriangles(node) ==
    {p \in 0..(Len(node.tris) - 1) :
        /\ \E j \in DOMAIN node.sections :
              ~IsMarkerName(node.sections[j].tex0) /\ p \in DeclaredPositions(node, j)
        /\ \E c \in 1..3 : node.tris[p + 1][c] >= node.vertex_count}

\* C16: when a triangle of a retained section references a vertex index
\* >= vertex_count, the export ends in the IndexError, and no group written
\* holds that triangle
C16_OutOfRangeIndexFails ==
    (pc # "export" /\ \E d \in DecodedNodes : OutOfRangeTriangles(d.n) # {}) =>
        /\ pc = "error"
        /\ \A d \in DecodedNodes :
              \A i \in DOMAIN polyhedrons :
                 (/\ polyhedrons[i].kind = d.kind
                  /\ polyhedrons[i].node = d.node
                  /\ polyhedrons[i].subnode = d.subnode) =>
                     \A k \in DOMAIN polyhedrons[i].local_tris :
                        polyhedrons[i].local_tris[k].pos \notin OutOfRangeTriangles(d.n)

\* a render node of 3 vertices whose second section references vertex 3:
\* the group of the first section was written before the failure
C16_Witness ==
    /\ pc = "error"
    /\ Len(dat.render_nodes) = 1
    /\ dat.render_nodes[1].vertex_count = 3
    /\ dat.render_nodes[1].tris = << <<0, 1, 2>>, <<2, 1, 3>> >>
    /\ dat.render_nodes[1].sections = <<Section(tWall, 1), Section(tWall, 1)>>
    /\ Len(polyhedrons) = 1
    /\ polyhedrons[1].local_tris[1].pos = 0

-----------------------------------------------------------------------------
(* SpecMain: main from its first line, lines 2385-2417                     *)

MainBlinds == {<<>>, <<bKeyFramer1>>, <<bKeyFramerBad>>, <<bOther, bScatter>>}

\* a render node of 3 vertices whose triangle references vertex 3
rnOutOfRange == Node(<<Section(tWall, 1)>>, 3, << <<2, 1, 3>> >>, <<>>, <<>>)

MainRenderNodes ==
    {<<>>, <<rnWall>>, <<rnAnim, rnWall>>, <<rnOutOfRange>>, <<rnAnim, rnOccluders>>,
     <<rnOnlyAnim, rnWall>>}

InitMain ==
    /\ pc = "header"
    /\ \E o \in {<<>>, <<oDoor>>, <<oKeyFramerA, oOccluderVolume>>, <<oRaw, oDoor>>,
                  <<oOccluderVolume, oDoor>>, <<oOccluderVolume2, oOccluderVolume>>},
          b \in MainBlinds,
          r \in MainRenderNodes,
          w \in {<<>>, <<wmA>>, <<wmC>>, <<wmA, wmB>>},
          c \in PipelinePolys :
           dat = Dat(o, b, r, w, [i \in 1..c[1] |-> Poly(4)], [i \in 1..c[2] |-> Poly(3)])
    /\ InitHash /\ InitObj /\ InitDec /\ InitOut
    /\ InitSolver /\ InitRead /\ InitTrace(<<>>) /\ InitAux

NextMain ==
    \/ ReadHeader
    \/ ReadWorldInfo
    \/ ReadWorldTree
    \/ ReadWorldObjects
    \/ ReadBlindObjects
    \/ ReadRenderData
    \/ ExportPolyhedronList
    \/ ExportNodeHierarchy
    \/ ExportGlobalPropList

SpecMain == InitMain /\ [][NextMain]_vars

-----------------------------------------------------------------------------
(* Phase order, checked under SpecMain                                     *)

\* the names of the phases started, each at its first start, other names
\* than those of `names` left out
RECURSIVE FirstStarts(_, _, _)
FirstStarts(log, names, seen) ==
    IF log = <<>> THEN <<>>
    ELSE IF Head(log).phase \in names \ seen
         THEN <<Head(log).phase>>
              \o FirstStarts(Tail(log), names, seen \cup {Head(log).phase})
         ELSE FirstStarts(Tail(log), names, seen)

ClaimedPhases ==
    <<"Header", "WorldMetadata", "SpatialTree", "WorldObjects", "BlindObjects",
      "ParticleBlockers", "RenderGraph">>

\* C17 as stated: a finished run has started the phases Header,
\* WorldMetadata, SpatialTree, WorldObjects, BlindObjects, ParticleBlockers,
\* RenderGraph, each for the first time in that order
C17_ClaimedPhaseOrder ==
    pc = "done" => FirstStarts(phase_log, Range(ClaimedPhases), {}) = ClaimedPhases

\* the phases of a whole run, in the order main runs them
RunPhases ==
    <<[pass |-> 1, phase |-> "Header"], [pass |-> 1, phase |-> "WorldMetadata"],
      [pass |-> 1, phase |-> "SpatialTree"], [pass |-> 1, phase |-> "WorldObjects"],
      [pass |-> 1, phase |-> "BlindObjects"], [pass |-> 1, phase |-> "RenderGraph"],
      [pass |-> 2, phase |-> "Header"], [pass |-> 2, phase |-> "WorldMetadata"],
      [pass |-> 2, phase |-> "WorldObjects"], [pass |-> 2, phase |-> "RenderGraph"],
      [pass |-> 2, phase |-> "CollisionPolygons"],
      [pass |-> 2, phase |-> "ParticleBlockers"]>>

\* C17, amended: the phases start in one fixed order, each after the one
\* before it: the first pass decodes Header, WorldMetadata, SpatialTree,
\* WorldObjects, BlindObjects (with the name lists WorldObjects returned) and
\* RenderGraph, and no ParticleBlockers; the second pass decodes Header,
\* WorldMetadata, WorldObjects, RenderGraph, the collision polygons and the
\* ParticleBlockers last. A finished run has run them all.
C17_PhasesInProgramOrder ==
    /\ Len(phase_log) <= Len(RunPhases)
    /\ phase_log = SubSeq(RunPhases, 1, Len(phase_log))
    /\ pc = "done" => phase_log = RunPhases
    /\ pc \in {"render", "error"} /\ Len(phase_log) = 5 =>
           \A i \in 1..Len(blind_labels) :
               blind_labels[i].tag = "KeyFramer" =>
                   blind_labels[i].name \in Range(keyframer_basekeynames)
                                            \cup {sUnknownKeyFramerName}

\* a finished run on a file with particle blockers
C17_Witness ==
    /\ pc = "done"
    /\ Len(dat.particle_blockers) = 2
    /\ Len(dat.render_nodes) = 2
    /\ Len(phase_log) = 12
    /\ phase_log[12].phase = "ParticleBlockers"
    /\ phase_log[10].phase = "RenderGraph"

-----------------------------------------------------------------------------
(* Skipped records, checked under SpecMain                                 *)

\* the property a cursor-log entry stands for
PropOf(e) == dat.objects[e.obj + 1].props[e.prop + 1]

NumProps == SumSeq([i \in 1..Len(dat.objects) |-> Len(dat.objects[i].props)])

\* the value the export decoder keeps under the name of the last property
\* of an object is None when that property has an unknown data type
LastPropIsNone(i) ==
    LET props == dat.objects[i].props
        last  == props[Len(props)]
    IN  (props # <<>> /\ last.data_type \notin {0, 1, 2, 3, 5, 6, 7}) =>
            DictGet(world_objects[i].props, last.name) = [kind |-> "none", s |-> <<>>]

\* C18: (a) the diagnostic decoder leaves the cursor data_size bytes after
\* the start of the value of every property of an unknown data type; (b) the
\* export decoder does the same, keeps None for it, and its cursor is where
\* the diagnostic decoder's was at the start of the value and at the end of
\* every property; (c) a blind object of a tag other than the two
\* interpreted ones moves the cursor engine_size bytes past its two header
\* fields and gets no name and no track
C18_UnknownRecordsSkippedByDeclaredLength ==
    /\ pc \notin {"header", "world_info", "world_tree", "objects"} =>
          /\ Len(obj_cursor_log) = NumProps
          /\ \A k \in DOMAIN obj_cursor_log :
                PropOf(obj_cursor_log[k]).data_type \notin {0, 1, 2, 3, 5, 6, 7} =>
                    obj_cursor_log[k].after
                        = obj_cursor_log[k].at_value + PropOf(obj_cursor_log[k]).data_size
    /\ pc \in {"hierarchy", "proplist", "done"} =>
          /\ lta_cursor_log = obj_cursor_log
          /\ \A k \in DOMAIN lta_cursor_log :
                PropOf(lta_cursor_log[k]).data_type \notin {0, 1, 2, 3, 5, 6, 7} =>
                    lta_cursor_log[k].after
                        = lta_cursor_log[k].at_value + PropOf(lta_cursor_log[k]).data_size
          /\ \A i \in DOMAIN dat.objects : LastPropIsNone(i)
    /\ pc \in {"render", "export", "hierarchy", "proplist", "done"} =>
          /\ Len(blind_cursor_log) = Len(dat.blind)
          /\ \A i \in DOMAIN dat.blind :
                dat.blind[i].obj_id \notin {1789855876, 1945451140} =>
                    /\ blind_cursor_log[i].after
                           = blind_cursor_log[i].at_payload + dat.blind[i].engine_size
                    /\ \A l \in DOMAIN blind_labels : blind_labels[l].obj_idx # i - 1

\* a finished run over an object with properties of the unknown types 4
\* (5 bytes) and 9 (0 bytes) and a blind object of an unknown tag (5 bytes)
C18_Witness ==
    /\ pc = "done"
    /\ dat.objects = <<oRaw, oDoor>>
    /\ dat.blind = <<bOther, bScatter>>
    /\ lta_cursor_log[1].after = lta_cursor_log[1].at_value + 5
    /\ obj_cursor_log[4].after = obj_cursor_log[4].at_value
    /\ blind_cursor_log[1] = [obj_idx |-> 0, at_payload |-> 12, after |-> 17]

-----------------------------------------------------------------------------
(* Order of the polyhedron list, checked under SpecMain                    *)

\* the pass a polyhedron belongs to, and its place among the kinds of pass 3
PassOf(g) == IF g.kind = "RN" THEN 1 ELSE IF g.kind = "WM" THEN 2 ELSE 3

KindRank(g) ==
    IF g.kind = "SkyPortal" THEN 1
    ELSE IF g.kind = "Occluder" THEN 2
    ELSE IF g.kind = "Blocker" THEN 3
    ELSE IF g.kind = "ParticleBlocker" THEN 4
    ELSE 0

\* the polyhedrons of kind WM, in the order written
WrittenWM == SelectSeq(polyhedrons, LAMBDA g : g.kind = "WM")

\* the Name of the i-th WorldObject when it is a non-empty string that names
\* a WM render node with geometry
MatchingName(i) ==
    LET nm == ObjGetName(world_objects[i])
    IN  IF nm.kind = "str" /\ nm.s # <<>> /\ DictHas(all_wm_data, nm.s)
        THEN <<nm.s>> ELSE <<>>

\* the groups of the WM render nodes, object by object
ExpectedWM ==
    Flatten([i \in 1..Len(world_objects) |->
                IF MatchingName(i) = <<>> THEN <<>>
                ELSE DictGet(all_wm_data, MatchingName(i)[1])])

\* C19: in the polyhedron list of a finished export every group of a render
\* node comes before every group of a WM render node, and these before the
\* sky portals, occluders, collision polygons and particle blockers, which
\* come in that order; the groups of the render nodes are in node order and
\* group order, those of the WM render nodes in the order of the WorldObjects
\* whose Name they match
C19_PolyhedronsInPassOrder ==
    pc \in {"hierarchy", "proplist", "done"} =>
        /\ \A i, j \in DOMAIN polyhedrons :
              i < j =>
                 /\ PassOf(polyhedrons[i]) <= PassOf(polyhedrons[j])
                 /\ KindRank(polyhedrons[i]) <= KindRank(polyhedrons[j])
                 /\ (polyhedrons[i].kind = "RN" /\ polyhedrons[j].kind = "RN") =>
                        \/ polyhedrons[i].node < polyhedrons[j].node
                        \/ /\ polyhedrons[i].node = polyhedrons[j].node
                           /\ polyhedrons[i].section_idx < polyhedrons[j].section_idx
                 /\ (PassOf(polyhedrons[i]) = 3
                        /\ polyhedrons[i].kind = polyhedrons[j].kind) =>
                        polyhedrons[i].node < polyhedrons[j].node
        /\ WrittenWM = ExpectedWM

\* groups of all three passes, the WM render nodes a and b written in the
\* order b, a of the objects that carry their names
C19_Witness ==
    /\ pc = "done"
    /\ Len(dat.wm_nodes) = 2
    /\ Len(WrittenWM) = 2
    /\ dat.wm_nodes[WrittenWM[1].node + 1].name = nB
    /\ dat.wm_nodes[WrittenWM[2].node + 1].name = nA
    /\ \E i, j, k \in DOMAIN polyhedrons :
          /\ polyhedrons[i].kind = "RN"
          /\ polyhedrons[j].kind = "SkyPortal"
          /\ polyhedrons[k].kind = "ParticleBlocker"

-----------------------------------------------------------------------------
(* WM render nodes that no object names, checked under SpecMain            *)

\* the WM render nodes (0-based) with retained groups whose name is the Name
\* of no decoded WorldObject
UnmatchedWM ==
    {w \in 0..(Len(dat.wm_nodes) - 1) :
        /\ \E k \in DOMAIN wm_section_props : wm_section_props[k].wm_index = w
        /\ \A i \in DOMAIN world_objects :
              ObjGetName(world_objects[i]) # [kind |-> "str", s |-> dat.wm_nodes[w + 1].name]}

\* C20: after a finished export every WM render node with retained groups
\* that no object names has groups in the polyhedron list and brush nodes in
\* the hierarchy
C20_UnmatchedSubTreeEmitted ==
    pc = "done" =>
        \A w \in UnmatchedWM :
            /\ \E i \in DOMAIN polyhedrons :
                  polyhedrons[i].kind = "WM" /\ polyhedrons[i].node = w
            /\ \E n \in DOMAIN node_hierarchy :
                  /\ node_hierarchy[n].type = "brush"
                  /\ node_hierarchy[n].entity.kind = "WMBrush"
                  /\ node_hierarchy[n].entity.id[1] = w

\* a finished export of a file whose only WM render node, c, is named by no
\* object: its group was decoded and is in no list
C20_Witness ==
    /\ pc = "done"
    /\ dat.wm_nodes = <<wmC>>
    /\ dat.objects = <<oDoor>>
    /\ UnmatchedWM = {0}
    /\ DictHas(all_wm_data, nC)
    /\ \A i \in DOMAIN polyhedrons : polyhedrons[i].kind # "WM"
    /\ \A n \in DOMAIN node_hierarchy : node_hierarchy[n].entity.kind # "WMBrush"

-----------------------------------------------------------------------------
(* Names of the occluders, checked under SpecMain                          *)

\* the positions of the occluder name table whose hash is that of the i-th
\* occluder
TableMatches(i) ==
    {k \in DOMAIN occluder_names : occluder_names[k].v = occluders_all[i].occ_hashcode}

\* C21: after the property list is written every decoded occluder has its
\* Name: that of the first entry of the occluder name table, in insertion
\* order, whose hash is the occluder's hash code, and "Occluder" when the
\* table has no such entry
C21_OccluderNamedByFirstMatch ==
    pc = "done" =>
        /\ Len(occluder_prop_names) = Len(occluders_all)
        /\ \A i \in DOMAIN occluders_all :
              IF TableMatches(i) = {}
              THEN occluder_prop_names[i] = sOccluder
              ELSE \E k \in TableMatches(i) :
                      /\ \A m \in TableMatches(i) : k <= m
                      /\ occluder_prop_names[i] = occluder_names[k].k

\* the table holds "aB", "Z9", "Ab" in that order: the occluder of "Ab" is
\* named "aB", the next "Z9", and the one no name hashes to "Occluder"
C21_Witness ==
    /\ pc = "done"
    /\ DictKeys(occluder_names) = <<oaB, oZ9, oAb>>
    /\ occluder_prop_names = <<oaB, oZ9, sOccluder>>

-----------------------------------------------------------------------------
(* Containers of the render nodes, checked under SpecMain                  *)

\* the positions of the hierarchy that hold the container of a render node
ContainerPositions ==
    {n \in DOMAIN node_hierarchy : node_hierarchy[n].entity.kind = "RenderNode"}

\* the number of groups written for render node i (0-based)
GroupsWritten(i) ==
    Cardinality({k \in DOMAIN polyhedrons :
                    polyhedrons[k].kind = "RN" /\ polyhedrons[k].node = i})

\* the brush nodes that follow position n without another node in between
RECURSIVE ChildrenAfter(_)
ChildrenAfter(n) ==
    IF n + 1 \in DOMAIN node_hierarchy /\ node_hierarchy[n + 1].entity.kind = "RNBrush"
    THEN <<node_hierarchy[n + 1]>> \o ChildrenAfter(n + 1)
    ELSE <<>>

\* every container is followed by one brush per group written for its node,
\* in group order
ContainersHoldTheirGroups ==
    \A n \in ContainerPositions :
        LET i == node_hierarchy[n].entity.id[1]
        IN  /\ Len(ChildrenAfter(n)) = GroupsWritten(i)
            /\ \A j \in 1..Len(ChildrenAfter(n)) :
                  /\ ChildrenAfter(n)[j].type = "brush"
                  /\ ChildrenAfter(n)[j].entity.id = <<i, j - 1, 0>>

\* C22 as stated: one container per decoded render node, in declaration
\* order, each with one brush per retained group
C22_ContainerPerRenderNode ==
    pc \in {"proplist", "done"} =>
        /\ Cardinality(ContainerPositions) = Len(dat.render_nodes)
        /\ \A n, m \in ContainerPositions :
              n < m => node_hierarchy[n].entity.id[1] < node_hierarchy[m].entity.id[1]
        /\ ContainersHoldTheirGroups

\* C22, amended: one container per decoded render node that keeps at least
\* one group, in declaration order, each with one brush per retained group;
\* a render node that keeps no group has no container
C22_ContainerPerNodeWithGroups ==
    pc \in {"proplist", "done"} =>
        /\ {node_hierarchy[n].entity.id[1] : n \in ContainerPositions}
              = {i \in 0..(Len(dat.render_nodes) - 1) : GroupsWritten(i) > 0}
        /\ \A n, m \in ContainerPositions :
              n < m => node_hierarchy[n].entity.id[1] < node_hierarchy[m].entity.id[1]
        /\ ContainersHoldTheirGroups

\* a node with nothing but an animation section before a node with a group:
\* the hierarchy has the container of render node 1 alone
C22_Witness ==
    /\ pc = "done"
    /\ dat.render_nodes = <<rnOnlyAnim, rnWall>>
    /\ Cardinality(ContainerPositions) = 1
    /\ \E n \in ContainerPositions :
          /\ node_hierarchy[n].entity.id[1] = 1
          /\ Len(ChildrenAfter(n)) = 1

-----------------------------------------------------------------------------
(* Slices of the triangle list, checked under SpecGeom                     *)

\* the decoded node a slice-log entry was read from
SlicedNode(e) ==
    IF e.kind = "RN" THEN dat.render_nodes[e.node + 1]
    ELSE dat.wm_nodes[e.node + 1].subnodes[e.subnode + 1]

\* the first position section j (1-based) of a node declares
SliceStart(node, j) == SumSeq([k \in 1..(j - 1) |-> node.sections[k].tri_count])

\* C23: section j of a node is given the triangles of the node's triangle
\* list at the positions from c_1 + ... + c_(j-1) up to, not including,
\* c_1 + ... + c_j, in list order, the tri_count of every earlier section
\* counted whether or not that section is an animation section; a retained
\* group holds the triangles of its own section's positions
C23_SectionGetsItsOwnSlice ==
    /\ \A i \in DOMAIN slice_log :
          LET node == SlicedNode(slice_log[i])
          IN  /\ Len(slice_log[i].slices) = Len(node.sections)
              /\ \A j \in DOMAIN node.sections :
                    LET sl == slice_log[i].slices[j]
                    IN  /\ {sl[k].pos : k \in DOMAIN sl}
                              = {p \in 0..(Len(node.tris) - 1) :
                                    /\ p >= SliceStart(node, j)
                                    /\ p < SliceStart(node, j) + node.sections[j].tri_count}
                        /\ \A k \in DOMAIN sl :
                              /\ sl[k].pos = SliceStart(node, j) + k - 1
                              /\ sl[k].v = node.tris[sl[k].pos + 1]
    /\ \A g \in GeometryGroups :
          \A k \in DOMAIN g.local_tris :
              g.local_tris[k].pos = SliceStart(NodeOf(g), g.section + 1) + k - 1

\* an animation section of one triangle before a kept section of one: the
\* kept section is given the triangle at position 1
C23_Witness ==
    /\ pc = "hierarchy"
    /\ \E i \in DOMAIN slice_log :
          /\ Len(SlicedNode(slice_log[i]).tris) = 2
          /\ SlicedNode(slice_log[i]).sections = <<Section(tAnim, 1), Section(tWall, 1)>>
          /\ Len(slice_log[i].slices[1]) = 1
          /\ slice_log[i].slices[2] = <<[pos |-> 1, v |-> <<2, 1, 3>>]>>
    /\ \E g \in GeometryGroups : g.section = 1 /\ g.local_tris[1].pos = 1

-----------------------------------------------------------------------------
(* Local vertex lists, checked under SpecGeom                              *)

\* the vertex indices the triangles of group g reference in the node's
\* triangle list, corner by corner
ReferencedIndices(g) ==
    Flatten([k \in 1..Len(g.local_tris) |-> NodeOf(g).tris[g.local_tris[k].pos + 1]])

\* a sequence without its repetitions, every element at its first place
RECURSIVE FirstOccurrences(_, _)
FirstOccurrences(s, seen) ==
    IF s = <<>> THEN <<>>
    ELSE IF Head(s) \in seen THEN FirstOccurrences(Tail(s), seen)
    ELSE <<Head(s)>> \o FirstOccurrences(Tail(s), seen \cup {Head(s)})

\* C24: the local vertex list of a retained group holds the vertices its
\* triangles reference, each once, in the order they are first referenced;
\* every corner of a remapped triangle points at the local vertex that is the
\* node's vertex of the original corner, so the index map is one-to-one from
\* the referenced indices onto 0..k-1
C24_LocalVerticesInFirstUseOrder ==
    \A g \in GeometryGroups :
        /\ g.local_verts = FirstOccurrences(ReferencedIndices(g), {})
        /\ Cardinality(Range(g.local_verts)) = Len(g.local_verts)
        /\ \A k \in DOMAIN g.local_tris :
              \A c \in 1..3 :
                 /\ g.local_tris[k].v[c] \in 0..(Len(g.local_verts) - 1)
                 /\ g.local_verts[g.local_tris[k].v[c] + 1]
                        = NodeOf(g).tris[g.local_tris[k].pos + 1][c]
        /\ {g.local_tris[k].v[c] : k \in DOMAIN g.local_tris, c \in 1..3}
              = 0..(Len(g.local_verts) - 1)

\* a group of twice the triangle (2, 1, 3): three local vertices, both
\* triangles remapped to (0, 1, 2)
C24_Witness ==
    /\ pc = "hierarchy"
    /\ \E g \in GeometryGroups :
          /\ NodeOf(g).tris = << <<2, 1, 3>>, <<2, 1, 3>> >>
          /\ g.local_verts = <<2, 1, 3>>
          /\ Len(g.local_tris) = 2
          /\ g.local_tris[1].v = <<0, 1, 2>>
          /\ g.local_tris[2].v = <<0, 1, 2>>

-----------------------------------------------------------------------------
(* Brush indices against the polyhedron list, checked under Spec           *)

\* the brush nodes of the hierarchy, in the order written
Brushes == SelectSeq(node_hierarchy, LAMBDA n : n.type = "brush")

\* brush node b stands for the entity polyhedron g was written for
SameEntity(b, g) ==
    \/ /\ b.entity.kind = "RNBrush" /\ g.kind = "RN"
       /\ b.entity.id = <<g.node, g.section_idx, 0>>
    \/ /\ b.entity.kind = "WMBrush" /\ g.kind = "WM"
       /\ b.entity.id = <<g.node, g.subnode, g.section_idx>>
    \/ b.entity.kind = "SkyPortalSet" /\ g.kind = "SkyPortal"
    \/ /\ b.entity.kind = "Occluder" /\ g.kind = "Occluder"
       /\ b.entity.id[1] = g.node
    \/ b.entity.kind = "BlockerSet" /\ g.kind = "Blocker"
    \/ b.entity.kind = "ParticleBlockerSet" /\ g.kind = "ParticleBlocker"

\* C25: once the hierarchy is written its brush nodes carry the brushindex
\* values 0, 1, ..., K-1 in the order written, K being the number of
\* polyhedrons in the polyhedron list, and the brush of index k stands for
\* the entity of the k-th polyhedron
C25_BrushIndexDenotesPolyhedron ==
    pc \in {"proplist", "done"} =>
        /\ Len(Brushes) = Len(polyhedrons)
        /\ \A k \in DOMAIN Brushes :
              /\ Brushes[k].brushindex = k - 1
              /\ k \in DOMAIN polyhedrons => SameEntity(Brushes[k], polyhedrons[k])

\* the brush nodes are numbered 0, 1, ... in the order written
C25_BrushIndicesCountUp ==
    pc \in {"proplist", "done"} =>
        \A k \in DOMAIN Brushes : Brushes[k].brushindex = k - 1

\* two objects named "a" and the WM render node "a": its group is written
\* twice and has one brush node
C25_Witness ==
    /\ pc = "done"
    /\ dat.objects = <<oKeyFramerA, oDoor>>
    /\ dat.wm_nodes = <<wmA>>
    /\ Len(SelectSeq(polyhedrons, LAMBDA g : g.kind = "WM")) = 2
    /\ Len(SelectSeq(Brushes, LAMBDA b : b.entity.kind = "WMBrush")) = 1
    /\ Len(Brushes) = Len(polyhedrons) - 1

-----------------------------------------------------------------------------
(* The returned track map against the tracks of the file, under SpecObjects *)

\* the blind objects tagged as keyframe tracks, in file order
KeyFramerObjects == SelectSeq(dat.blind, LAMBDA bo : bo.obj_id = KeyFramerId)

\* the tracks of the returned map hold, in order, the keys decoded from the
\* tracks of the file
TracksAreThoseOfTheFile ==
    /\ Len(keyframer_data_map) = Len(KeyFramerObjects)
    /\ \A i \in 1..Len(keyframer_data_map) :
           /\ Len(keyframer_data_map[i].v) = Len(KeyFramerObjects[i].keys)
           /\ \A k \in 1..Len(keyframer_data_map[i].v) :
                  /\ keyframer_data_map[i].v[k].key_type = KeyFramerObjects[i].keys[k]
                  /\ keyframer_data_map[i].v[k].src
                         = <<KeyFramerPositions(Len(dat.blind))[i], k - 1>>

\* C26: every blind object tagged as a keyframe track contributes its own
\* track: after M such objects are decoded the returned map holds M tracks,
\* each with exactly the keys of its blind object in key order, also when two
\* tracks resolve to the same name or the name list is exhausted.
C26_EveryTrackKept ==
    pc = "render" => TracksAreThoseOfTheFile

\* the returned map has one track per name the tracks resolve to, and a name
\* holds the keys of the last track that resolved to it
C26_LastTrackOfANameKept ==
    pc = "render" =>
        /\ \A i, j \in 1..Len(keyframer_data_map) :
               keyframer_data_map[i].k = keyframer_data_map[j].k => i = j
        /\ {keyframer_data_map[i].k : i \in 1..Len(keyframer_data_map)}
               = {KeyFramerLabels[i].name : i \in 1..Len(KeyFramerLabels)}
        /\ \A i \in 1..Len(KeyFramerLabels) :
               (\A j \in (i + 1)..Len(KeyFramerLabels) :
                   KeyFramerLabels[j].name # KeyFramerLabels[i].name)
               => /\ DictHas(keyframer_data_map, KeyFramerLabels[i].name)
                  /\ Len(DictGet(keyframer_data_map, KeyFramerLabels[i].name))
                         = Len(KeyFramerObjects[i].keys)
                  /\ \A k \in 1..Len(KeyFramerObjects[i].keys) :
                         DictGet(keyframer_data_map, KeyFramerLabels[i].name)[k].src
                             = <<KeyFramerLabels[i].obj_idx, k - 1>>

\* two tracks decoded after the name list is exhausted: one track is returned
C26_Witness ==
    /\ pc = "render"
    /\ keyframer_basekeynames = <<>>
    /\ dat.blind = <<bKeyFramer1, bKeyFramer2>>
    /\ Len(keyframer_data_map) = 1
    /\ keyframer_data_map[1].k = sUnknownKeyFramerName
    /\ Len(keyframer_data_map[1].v) = 2

-----------------------------------------------------------------------------
(* The faces of the polyhedrons written, under SpecMain *)

\* every face of polyhedron g lists points of g's point list
FacesInRange(g) ==
    \A k \in 1..Len(g.faces) :
        \A c \in 1..Len(g.faces[k]) :
            g.faces[k][c] >= 0 /\ g.faces[k][c] < Len(g.local_verts)

\* C28: every face of every polyhedron written, sky-portal, occluder,
\* collision and particle-blocker polyhedrons included, lists only point
\* indices smaller than the number of points in that polyhedron's point list,
\* for any decoded per-polygon vertex count.
C28_FacesListOwnPoints ==
    \A i \in 1..Len(polyhedrons) : FacesInRange(polyhedrons[i])

\* the faces of the texture-group, collision and particle-blocker polyhedrons
\* list their own points, and so do those of a sky portal or an occluder of
\* four vertices or more
C28_FacesListOwnPointsButPortals ==
    \A i \in 1..Len(polyhedrons) :
        \/ polyhedrons[i].kind \notin {"SkyPortal", "Occluder"}
        \/ Len(polyhedrons[i].local_verts) >= 4
        => FacesInRange(polyhedrons[i])

\* an occluder decoded with three vertices is written with the face 0 1 2 3
C28_Witness ==
    /\ pc = "done"
    /\ \E i \in 1..Len(polyhedrons) :
           /\ polyhedrons[i].kind = "Occluder"
           /\ Len(polyhedrons[i].local_verts) = 3
           /\ polyhedrons[i].faces = <<QuadFace>>
    /\ \E i \in 1..Len(polyhedrons) :
           /\ polyhedrons[i].kind = "RN"
           /\ polyhedrons[i].faces # <<>>

-----------------------------------------------------------------------------
(* SpecTwoCalls: export_rendernodes_to_lta called again on the same file   *)
(* within the process that made the first call                             *)

MaxCalls == 2     \* calls of export_rendernodes_to_lta in one process

CountKind(kind) == Len(SelectSeq(polyhedrons, LAMBDA g : g.kind = kind))

\* what a finished call wrote: polyhedrons of sky portals and of occluders,
\* brush nodes, property-list entries
CallSummary ==
    [skyportals |-> CountKind("SkyPortal"),
     occluders  |-> CountKind("Occluder"),
     brushes    |-> Len(SelectSeq(node_hierarchy, LAMBDA n : n.type = "brush")),
     proplists  |-> Len(globalproplist)]

\* a further call of export_rendernodes_to_lta after a finished one: what the
\* earlier call wrote is recorded, the locals of the function start afresh
\* (lines 1329-1340), the module-level lists of lines 1319-1320 are what the
\* earlier call left
ExportAgain ==
    /\ pc = "done"
    /\ Len(call_log) < MaxCalls - 1
    /\ call_log' = Append(call_log, CallSummary)
    /\ world_objects' = <<>>
    /\ section_brushes_by_node' = <<>>
    /\ wm_names_list' = <<>>
    /\ wm_section_props' = <<>>
    /\ all_wm_data' = <<>>
    /\ slice_log' = <<>>
    /\ polyhedrons' = <<>>
    /\ polyBlocks_count' = 0
    /\ polypParticleblock_count' = 0
    /\ matched_wm_to_obj' = <<>>
    /\ node_hierarchy' = <<>>
    /\ globalproplist' = <<>>
    /\ occluder_prop_names' = <<>>
    /\ pc' = "export"
    /\ UNCHANGED <<dat, hashVars, objVars, skyportals_all, occluders_all, solverVars,
                   readVars, traceVars, blockerVars, surfVars>>

NextTwoCalls == NextMain \/ ExportAgain

SpecTwoCalls == InitMain /\ [][NextTwoCalls]_vars

\* the sky portals and the occluders of the file
RECURSIVE FileSkyPortals(_)
FileSkyPortals(nodes) ==
    IF nodes = <<>> THEN 0
    ELSE Len(Head(nodes).skyportals) + FileSkyPortals(Tail(nodes))

RECURSIVE FileOccluders(_)
FileOccluders(nodes) ==
    IF nodes = <<>> THEN 0
    ELSE Len(Head(nodes).occluders) + FileOccluders(Tail(nodes))

AllFileNodes ==
    dat.render_nodes \o Flatten([i \in 1..Len(dat.wm_nodes) |-> dat.wm_nodes[i].subnodes])

\* C29: the sky portals and occluders emitted by one call of
\* export_rendernodes_to_lta are exactly those decoded during that call: two
\* calls on the same input within one process write the same numbers of
\* sky-portal and occluder polyhedrons, brush nodes and property-list entries.
C29_CallsWriteTheSame ==
    pc = "done" =>
        /\ CountKind("SkyPortal") = FileSkyPortals(AllFileNodes)
        /\ CountKind("Occluder") = FileOccluders(AllFileNodes)
        /\ \A i \in 1..Len(call_log) : call_log[i] = CallSummary

\* the first call writes the sky portals and occluders of the file, and a
\* later call writes those of every call so far
C29_CallsAccumulate ==
    pc = "done" =>
        /\ CountKind("SkyPortal") = (Len(call_log) + 1) * FileSkyPortals(AllFileNodes)
        /\ CountKind("Occluder") = (Len(call_log) + 1) * FileOccluders(AllFileNodes)
        /\ \A i \in 1..Len(call_log) :
               /\ call_log[i].skyportals = i * FileSkyPortals(AllFileNodes)
               /\ call_log[i].occluders = i * FileOccluders(AllFileNodes)

\* a file with one sky portal and one occluder, exported twice
C29_Witness ==
    /\ pc = "done"
    /\ dat.render_nodes = <<rnAnim, rnWall>>
    /\ dat.wm_nodes = <<>>
    /\ Len(call_log) = 1
    /\ call_log[1].skyportals = 1
    /\ call_log[1].occluders = 1
    /\ CountKind("SkyPortal") = 2
    /\ CountKind("Occluder") = 2
    /\ CallSummary.brushes = call_log[1].brushes + 2
    /\ CallSummary.proplists > call_log[1].proplists

-----------------------------------------------------------------------------
(* SpecSurfaces: write_surfaces_to_lta, the physics/collision file,        *)
(* lines 2209-2382. A world model is [world_name, points_len, planes_len,  *)
(* surfaces_len, polies]; a poly is [surface_idx, plane_idx, indices].     *)

MaxWorldModels == 2      \* world models of the world tree

\* lines 2220-2222 (2305-2307): surface_to_polies, a defaultdict in the order
\* its keys were first used
RECURSIVE SurfaceToPolies(_, _)
SurfaceToPolies(d, polies) ==
    IF polies = <<>> THEN d
    ELSE LET p   == Head(polies)
             old == IF DictHas(d, p.surface_idx) THEN DictGet(d, p.surface_idx)
                    ELSE <<>>
         IN  SurfaceToPolies(DictSet(d, p.surface_idx, Append(old, p)), Tail(polies))

\* surface_to_polies.keys(): the surfaces in the order they were first used
SurfaceKeys(world_model) == DictKeys(SurfaceToPolies(<<>>, world_model.polies))

\* line 2224: sorted(surface_to_polies.keys())
PolyhedronPassSurfaces(world_model) ==
    DictKeys(SortByKey(SurfaceToPolies(<<>>, world_model.polies)))

\* line 2322: sorted(surface_to_polies.keys())
HierarchyPassSurfaces(world_model) ==
    DictKeys(SortByKey(SurfaceToPolies(<<>>, world_model.polies)))

\* lines 2232-2238: point_map and local_points of one surface; the points
\* are named by their index in world_model.points
RECURSIVE SurfacePoints(_, _)
SurfacePoints(acc, indices) ==
    IF indices = <<>> THEN acc
    ELSE IF DictHas(acc.point_map, Head(indices)) THEN SurfacePoints(acc, Tail(indices))
    ELSE SurfacePoints([point_map    |-> DictSet(acc.point_map, Head(indices),
                                                 Len(acc.local_points)),
                        local_points |-> Append(acc.local_points, Head(indices))],
                       Tail(indices))

\* lines 2238, 2248 and 2252: the subscripts that raise IndexError
SurfaceRaises(world_model, surface_idx, polies) ==
    \/ \E k \in 1..Len(polies) : \E c \in 1..Len(polies[k].indices) :
           polies[k].indices[c] >= world_model.points_len
    \/ \E k \in 1..Len(polies) : polies[k].plane_idx >= world_model.planes_len
    \/ surface_idx >= world_model.surfaces_len

\* lines 2229-2280: the polyhedron of one surface of one world model
SurfacePolyhedron(wm_index, surface_idx, polies) ==
    With(SurfacePoints([point_map |-> <<>>, local_points |-> <<>>],
                       Flatten([k \in 1..Len(polies) |-> polies[k].indices])),
         LAMBDA r :
            [wm |-> wm_index, surface_idx |-> surface_idx,
             local_points |-> r.local_points,
             faces |-> [k \in 1..Len(polies) |->
                           [c \in 1..Len(polies[k].indices) |->
                               DictGet(r.point_map, polies[k].indices[c])]]])

\* lines 2224-2281: the surfaces of one world model, in `keys` order
RECURSIVE SurfacePass(_, _, _, _)
SurfacePass(acc, wm_index, world_model, keys) ==
    IF keys = <<>> \/ acc.err THEN acc
    ELSE LET polies == DictGet(SurfaceToPolies(<<>>, world_model.polies), Head(keys))
             a1 == [acc EXCEPT !.global_surface_data =
                                   Append(@, [wm |-> wm_index, surface_idx |-> Head(keys)])]
         IN  IF SurfaceRaises(world_model, Head(keys), polies)
             THEN [a1 EXCEPT !.err = TRUE]
             ELSE SurfacePass([a1 EXCEPT !.polyhedrons =
                                   Append(@, SurfacePolyhedron(wm_index, Head(keys), polies)),
                                         !.brushindex = @ + 1],
                              wm_index, world_model, Tail(keys))

\* lines 2219-2281: the polyhedron pass over the world models
RECURSIVE PolyhedronPass(_, _, _)
PolyhedronPass(acc, wm_index, world_models) ==
    IF world_models = <<>> \/ acc.err THEN acc
    ELSE PolyhedronPass(SurfacePass(acc, wm_index, Head(world_models),
                                    PolyhedronPassSurfaces(Head(world_models))),
                        wm_index + 1, Tail(world_models))

SurfaceNode(st, type, wm_index, surface_idx, propid) ==
    [st EXCEPT
        !.nodes = Append(@, [type |-> type, wm |-> wm_index, surface_idx |-> surface_idx,
                             nodeid |-> st.base_nodeid, propid |-> propid,
                             brushindex |-> IF type = "brush" THEN st.brushindex ELSE -1]),
        !.base_nodeid = @ + 1,
        !.base_propid = IF type = "brush" THEN @ + 1 ELSE @,
        !.brushindex  = IF type = "brush" THEN @ + 1 ELSE @]

\* lines 2322-2336: the brush nodes of one world model
RECURSIVE SurfaceBrushes(_, _, _)
SurfaceBrushes(st, wm_index, keys) ==
    IF keys = <<>> THEN st
    ELSE SurfaceBrushes(SurfaceNode(st, "brush", wm_index, Head(keys), st.base_propid),
                        wm_index, Tail(keys))

\* lines 2304-2340: one container per world model, its brush nodes under it
RECURSIVE HierarchyPass(_, _, _)
HierarchyPass(st, wm_index, world_models) ==
    IF world_models = <<>> THEN st
    ELSE HierarchyPass(
             SurfaceBrushes(SurfaceNode(st, "null", wm_index, -1, 0), wm_index,
                            HierarchyPassSurfaces(Head(world_models))),
             wm_index + 1, Tail(world_models))

\* lines 2283-2340: the node hierarchy under the root
SurfaceHierarchy(world_models) ==
    HierarchyPass(SurfaceNode([nodes |-> <<>>, base_nodeid |-> 1, base_propid |-> 1,
                               brushindex |-> 0],
                              "null", -1, -1, 0),
                  0, world_models).nodes

\* lines 2346-2381: one proplist per entry of global_surface_data, named
\* Surface<surfaceinx> with surfaceinx counted from 0 inside a world model
RECURSIVE SurfaceProps(_, _, _, _)
SurfaceProps(props, data, last_wm, surfaceinx) ==
    IF data = <<>> THEN props
    ELSE LET inx == IF Head(data).wm # last_wm THEN 0 ELSE surfaceinx
         IN  SurfaceProps(Append(props, [wm |-> Head(data).wm,
                                         surface_idx |-> Head(data).surface_idx,
                                         surfaceinx |-> inx]),
                          Tail(data), Head(data).wm, inx + 1)

\* lines 2342-2381: the leading empty proplist, then the surfaces
SurfacePropList(data) ==
    SurfaceProps(<<[wm |-> -1, surface_idx |-> -1, surfaceinx |-> -1]>>, data, -1, 0)

\* write_surfaces_to_lta, lines 2212-2281: the polyhedron list; an IndexError
\* ends the run
WriteSurfacesPolyhedronList ==
    /\ pc = "surfaces"
    /\ \E a \in {PolyhedronPass([global_surface_data |-> <<>>, polyhedrons |-> <<>>,
                                 brushindex |-> 0, err |-> FALSE], 0, worldtree)} :
           /\ global_surface_data' = a.global_surface_data
           /\ surface_polyhedrons' = a.polyhedrons
           /\ pc' = IF a.err THEN "error" ELSE "surface_hierarchy"
    /\ UNCHANGED <<dat, hashVars, objVars, decVars, outVars, solverVars, readVars,
                   traceVars, blockerVars, call_log, worldtree, surface_hierarchy,
                   surface_proplist>>

\* write_surfaces_to_lta, lines 2283-2340: the node hierarchy
WriteSurfacesNodeHierarchy ==
    /\ pc = "surface_hierarchy"
    /\ surface_hierarchy' = SurfaceHierarchy(worldtree)
    /\ pc' = "surface_proplist"
    /\ UNCHANGED <<dat, hashVars, objVars, decVars, outVars, solverVars, readVars,
                   traceVars, blockerVars, call_log, worldtree, global_surface_data,
                   surface_polyhedrons, surface_proplist>>

\* write_surfaces_to_lta, lines 2341-2382: the global property list
WriteSurfacesGlobalPropList ==
    /\ pc = "surface_proplist"
    /\ surface_proplist' = SurfacePropList(global_surface_data)
    /\ pc' = "surfaces_done"
    /\ UNCHANGED <<dat, hashVars, objVars, decVars, outVars, solverVars, readVars,
                   traceVars, blockerVars, call_log, worldtree, global_surface_data,
                   surface_polyhedrons, surface_hierarchy>>

SPoly(surface_idx, indices) ==
    [surface_idx |-> surface_idx, plane_idx |-> 0, indices |-> indices]

WModel(name, points_len, surfaces_len, polies) ==
    [world_name |-> name, points_len |-> points_len, planes_len |-> 1,
     surfaces_len |-> surfaces_len, polies |-> polies]

\* surface 1 used before surface 0, and twice
wmdlRoom == WModel(nA, 4, 2, <<SPoly(1, <<0, 1, 2>>), SPoly(0, <<2, 1, 3>>),
                               SPoly(1, <<0, 2, 3>>)>>)
\* surfaces 0 and 1 used by no polygon
wmdlDoor == WModel(nB, 3, 3, <<SPoly(2, <<0, 1, 2>>)>>)
\* surfaces used in the order 0, 2, 1
wmdlLift == WModel(nC, 4, 3, <<SPoly(0, <<0, 1, 2>>), SPoly(2, <<2, 1, 3>>),
                               SPoly(1, <<3, 1, 0>>)>>)
wmdlEmpty == WModel(<<>>, 0, 0, <<>>)
\* a polygon that references point 3 of 3 points
wmdlBadPoint == WModel(nA, 3, 1, <<SPoly(0, <<2, 1, 3>>)>>)
\* a polygon that references surface 1 of 1 surface
wmdlBadSurface == WModel(nB, 3, 1, <<SPoly(0, <<0, 1, 2>>), SPoly(1, <<0, 1, 2>>)>>)

WorldModelCandidates ==
    {wmdlRoom, wmdlDoor, wmdlLift, wmdlEmpty, wmdlBadPoint, wmdlBadSurface}

InitSurfaces ==
    /\ pc = "surfaces"
    /\ dat = Dat(<<>>, <<>>, <<>>, <<>>, <<>>, <<>>)
    /\ InitHash /\ InitObj /\ InitDec /\ InitOut
    /\ InitSolver /\ InitRead /\ InitTrace(<<>>)
    /\ InitBlockers /\ call_log = <<>> /\ InitSurfOut
    /\ worldtree \in SeqsUpTo(WorldModelCandidates, MaxWorldModels)

NextSurfaces ==
    \/ WriteSurfacesPolyhedronList
    \/ WriteSurfacesNodeHierarchy
    \/ WriteSurfacesGlobalPropList

SpecSurfaces == InitSurfaces /\ [][NextSurfaces]_vars

\* the pairs (world model, surface index) with a polygon of that model on
\* that surface
ReferencedPairs ==
    UNION {{<<i - 1, worldtree[i].polies[k].surface_idx>> :
               k \in 1..Len(worldtree[i].polies)} : i \in 1..Len(worldtree)}

PairOf(r) == <<r.wm, r.surface_idx>>

\* model order, then ascending surface index
PairBefore(a, b) == a[1] < b[1] \/ (a[1] = b[1] /\ a[2] < b[2])

\* the brush nodes of the physics file, in the order written
SurfaceBrushNodes == SelectSeq(surface_hierarchy, LAMBDA n : n.type = "brush")

\* C30: in the physics/collision file, polyhedrons, brush nodes and
\* property-list entries are in one-to-one correspondence: exactly one of each
\* per pair (world model, surface index referenced by at least one polygon of
\* that model), all three in the same order (model order, then ascending
\* surface index), so that brushindex k and propid k+1 denote the k-th
\* polyhedron and the (k+1)-th property-list entry after the leading empty one.
C30_SurfacesInCorrespondence ==
    pc = "surfaces_done" =>
        /\ {PairOf(surface_polyhedrons[k]) : k \in 1..Len(surface_polyhedrons)}
               = ReferencedPairs
        /\ \A j, k \in 1..Len(surface_polyhedrons) :
               j < k => PairBefore(PairOf(surface_polyhedrons[j]),
                                   PairOf(surface_polyhedrons[k]))
        /\ Len(SurfaceBrushNodes) = Len(surface_polyhedrons)
        /\ Len(surface_proplist) = Len(surface_polyhedrons) + 1
        /\ PairOf(surface_proplist[1]) = <<-1, -1>>
        /\ \A k \in 1..Len(surface_polyhedrons) :
               /\ SurfaceBrushNodes[k].brushindex = k - 1
               /\ SurfaceBrushNodes[k].propid = k
               /\ PairOf(SurfaceBrushNodes[k]) = PairOf(surface_polyhedrons[k])
               /\ PairOf(surface_proplist[k + 1]) = PairOf(surface_polyhedrons[k])

\* two world models, the first using surface 1 before surface 0 and the
\* second leaving surfaces 0 and 1 unused: three polyhedrons
C30_Witness ==
    /\ pc = "surfaces_done"
    /\ worldtree = <<wmdlRoom, wmdlDoor>>
    /\ [k \in 1..Len(surface_polyhedrons) |-> PairOf(surface_polyhedrons[k])]
           = << <<0, 0>>, <<0, 1>>, <<1, 2>> >>
    /\ Len(surface_polyhedrons[2].faces) = 2
    /\ Len(SurfaceBrushNodes) = 3
    /\ Len(surface_proplist) = 4

-----------------------------------------------------------------------------
(* SpecBlockers: the two decoders of the particle-blocker block, byte by   *)
(* byte, on the same file; positions count from                            *)
(* header.particle_blocker_data_pos                                        *)

MaxBlockers == 2         \* polygons in the particle-blocker block
MaxBlockerVerts == 2     \* vertices of one of its polygons

\* the integer of a 32-bit value held as two limbs
U32Int(v) == v.hi * 65536 + v.lo

\* "<B"
ConvB(b) == b[1]

\* struct.unpack("<B", f.read(1)), line 627
read_byte(data, pos) ==
    With(FRead(data, pos, 1),
         LAMBDA r : [pos |-> r.pos, result |-> Unpack("<B", 1, r.bytes, ConvB)])

\* [Vec3.read(f) for _ in range(vcount)], lines 628 and 1204: the first short
\* read raises
RECURSIVE ReadVerts(_, _, _, _)
ReadVerts(data, pos, vcount, verts) ==
    IF vcount = 0 THEN [kind |-> "value", pos |-> pos, verts |-> verts]
    ELSE LET v == Vec3_read(data, pos)
         IN  IF v.result.kind # "value"
             THEN [kind |-> "struct.error", pos |-> v.pos, verts |-> verts]
             ELSE ReadVerts(data, v.pos, vcount - 1, Append(verts, v.result.value))

\* lines 627-630: one blocker as read_particle_blockers decodes it
ReadBlocker(data, pos) ==
    LET vcount == read_byte(data, pos)
        verts  == ReadVerts(data, vcount.pos, vcount.result.value, <<>>)
        normal == Vec3_read(data, verts.pos)
        radius == read_float(data, normal.pos)
    IN  IF vcount.result.kind # "value" THEN [kind |-> "struct.error", pos |-> vcount.pos]
        ELSE IF verts.kind # "value" THEN [kind |-> "struct.error", pos |-> verts.pos]
        ELSE IF normal.result.kind # "value"
             THEN [kind |-> "struct.error", pos |-> normal.pos]
        ELSE IF radius.result.kind # "value"
             THEN [kind |-> "struct.error", pos |-> radius.pos]
        ELSE [kind |-> "value", pos |-> radius.pos,
              poly |-> [vcount |-> vcount.result.value, verts |-> verts.verts]]

\* lines 1197-1204: one polygon as write_particleblockers_polygons decodes it
ReadBlockerPolygon(data, pos) ==
    LET normal == Vec3_read(data, pos)
        dist   == read_float(data, normal.pos)
        vcount == read_int(data, dist.pos)
        verts  == ReadVerts(data, vcount.pos, U32Int(vcount.result.value), <<>>)
    IN  IF normal.result.kind # "value"
        THEN [kind |-> "struct.error", pos |-> normal.pos]
        ELSE IF dist.result.kind # "value" THEN [kind |-> "struct.error", pos |-> dist.pos]
        ELSE IF vcount.result.kind # "value"
             THEN [kind |-> "struct.error", pos |-> vcount.pos]
        ELSE IF verts.kind # "value" THEN [kind |-> "struct.error", pos |-> verts.pos]
        ELSE [kind |-> "value", pos |-> verts.pos,
              poly |-> [vcount |-> U32Int(vcount.result.value), verts |-> verts.verts]]

\* the loops of lines 626 and 1196: `count` polygons, up to the first failure
RECURSIVE DecodeBlockers(_, _, _, _, _, _)
DecodeBlockers(as_polygons, data, pos, count, todo, polys) ==
    IF todo = 0
    THEN [kind |-> "value", count |-> count, polys |-> polys, pos |-> pos]
    ELSE LET r == IF as_polygons THEN ReadBlockerPolygon(data, pos)
                  ELSE ReadBlocker(data, pos)
         IN  IF r.kind # "value"
             THEN [kind |-> "struct.error", count |-> count, polys |-> polys,
                   pos |-> r.pos]
             ELSE DecodeBlockers(as_polygons, data, r.pos, count, todo - 1,
                                 Append(polys, r.poly))

\* lines 622-626 and 1193-1196: the polygon count, then the polygons; count
\* is -1 when the file ends before it
DecodeBlockerBlock(as_polygons, data) ==
    LET c == read_int(data, 0)
    IN  IF c.result.kind # "value"
        THEN [kind |-> "struct.error", count |-> -1, polys |-> <<>>, pos |-> c.pos]
        ELSE DecodeBlockers(as_polygons, data, c.pos, U32Int(c.result.value),
                            U32Int(c.result.value), <<>>)

\* read_particle_blockers, lines 621-634
read_particle_blockers(data) == DecodeBlockerBlock(FALSE, data)

\* write_particleblockers_polygons, lines 1192-1204: what it decodes
write_particleblockers_polygons(data) == DecodeBlockerBlock(TRUE, data)

\* a call of read_particle_blockers on the file
ReadParticleBlockers ==
    /\ pc = "blockers"
    /\ \E r \in {read_particle_blockers(f_data)} :
           /\ read_blockers' = r
           /\ f_pos' = r.pos
    /\ UNCHANGED <<pc, dat, hashVars, objVars, decVars, outVars, solverVars, f_data,
                   read_result, traceVars, written_blockers, call_log, surfVars>>

\* a call of write_particleblockers_polygons on the file
WriteParticleblockersPolygons ==
    /\ pc = "blockers"
    /\ \E r \in {write_particleblockers_polygons(f_data)} :
           /\ written_blockers' = r
           /\ f_pos' = r.pos
    /\ UNCHANGED <<pc, dat, hashVars, objVars, decVars, outVars, solverVars, f_data,
                   read_result, traceVars, read_blockers, call_log, surfVars>>

\* the bytes of a little-endian 32-bit count below 65536
LE32(n) == <<n % 256, n \div 256, 0, 0>>

fZero == <<0, 0, 0, 0>>          \* 0.0
fOne  == <<0, 0, 128, 63>>       \* 1.0
fTwo  == <<1, 0, 0, 64>>         \* the float after 2.0

vUp   == fZero \o fZero \o fOne
vEast == fTwo \o fZero \o fZero

\* the block of a file laid out as the export reads it: plane, vertex count
\* on 32 bits, vertices
PolygonBlock(polys) ==
    LE32(Len(polys))
    \o Flatten([i \in 1..Len(polys) |->
                  polys[i].normal \o fOne \o LE32(Len(polys[i].verts))
                  \o Flatten(polys[i].verts)])

\* the block of a file laid out as the dump reads it: vertex count on 8 bits,
\* vertices, normal, radius
BlockerBlock(polys) ==
    LE32(Len(polys))
    \o Flatten([i \in 1..Len(polys) |->
                  <<Len(polys[i].verts)>> \o Flatten(polys[i].verts)
                  \o polys[i].normal \o fOne])

BlockerCandidates ==
    {[normal |-> n, verts |-> v] : n \in {vUp, vEast},
                                   v \in SeqsUpTo({vEast}, MaxBlockerVerts)}

InitBlockerFiles ==
    /\ pc = "blockers"
    /\ dat = Dat(<<>>, <<>>, <<>>, <<>>, <<>>, <<>>)
    /\ InitHash /\ InitObj /\ InitDec /\ InitOut
    /\ InitSolver /\ InitTrace(<<>>) /\ InitAux
    /\ \E polys \in SeqsUpTo(BlockerCandidates, MaxBlockers),
          as_polygons \in BOOLEAN, cut \in {0, 1} :
           \E bytes \in {IF as_polygons THEN PolygonBlock(polys)
                         ELSE BlockerBlock(polys)} :
               f_data = SubSeq(bytes, 1, Len(bytes) - cut)
    /\ f_pos = 0
    /\ read_result = NoResult

NextBlockers == ReadParticleBlockers \/ WriteParticleblockersPolygons

SpecBlockers == InitBlockerFiles /\ [][NextBlockers]_vars

BothDecoded == read_blockers # NoResult /\ written_blockers # NoResult

\* C27: read_particle_blockers and write_particleblockers_polygons, started at
\* header.particle_blocker_data_pos on the same bytes, decode the same polygon
\* count, the same per-polygon vertex count and the same vertices, and end at
\* the same cursor.
C27_DecodersAgree ==
    BothDecoded =>
        /\ read_blockers.count = written_blockers.count
        /\ read_blockers.polys = written_blockers.polys
        /\ read_blockers.pos = written_blockers.pos

\* the two decoders read the same polygon count, and agree on a block that
\* declares no polygon
C27_DecodersAgreeOnCount ==
    BothDecoded =>
        /\ read_blockers.count = written_blockers.count
        /\ read_blockers.count <= 0 => read_blockers = written_blockers

\* a block of one polygon with two vertices, laid out as the export reads it:
\* both decoders finish, with different vertices and at different cursors
C27_Witness ==
    /\ f_data = PolygonBlock(<<[normal |-> vUp, verts |-> <<vEast, vEast>>]>>)
    /\ read_blockers.kind = "value"
    /\ written_blockers.kind = "value"
    /\ written_blockers.polys = <<[vcount |-> 2, verts |-> <<Conv3F(vEast), Conv3F(vEast)>>]>>
    /\ written_blockers.pos = Len(f_data)
    /\ read_blockers.polys = <<[vcount |-> 0, verts |-> <<>>]>>
    /\ read_blockers.pos = 21

-----------------------------------------------------------------------------
(* SpecReads: primitive reads, in any order, from a file cut at any length *)

MaxFileLen == 14

\* the payload bytes of the files: letters with a lone lead byte among them
Filler(i) == IF i % 3 = 0 THEN 200 ELSE 64 + i

\* a file that opens with a 16-bit length, cut after n bytes
CutFile(lo, hi, n) ==
    SubSeq(<<lo, hi>> \o [i \in 1..MaxFileLen |-> Filler(i)], 1, n)

InitReads ==
    /\ pc = "read"
    /\ dat = Dat(<<>>, <<>>, <<>>, <<>>, <<>>, <<>>)
    /\ InitHash /\ InitObj /\ InitDec /\ InitOut
    /\ InitSolver /\ InitTrace(<<>>) /\ InitAux
    /\ \E lo \in {0, 3, 5, 12}, hi \in {0, 1}, n \in 0..MaxFileLen :
           f_data = CutFile(lo, hi, n)
    /\ f_pos = 0
    /\ read_result = NoResult

NextReads == ReadInt \/ ReadFloat \/ ReadVec3 \/ ReadString

SpecReads == InitReads /\ [][NextReads]_vars

-----------------------------------------------------------------------------
(* Properties of the primitive reads, checked under SpecReads              *)

\* C15: a read returns a value only when the file held every byte it asked
\* for, the payload of a string included; otherwise it raises and the run
\* ends with the cursor at the end of the file
C15_NoValueFromFewerBytes ==
    /\ read_result.kind = "value" => read_result.used = read_result.asked
    /\ read_result.kind = "struct.error" =>
            /\ pc = "error"
            /\ read_result.got < read_result.size
            /\ f_pos = Len(f_data)

\* C15 without the payload of a string: the integer, float and vector reads
\* and the read of the 16-bit length raise when fewer bytes are left than
\* they ask for, and return a value built from all of them otherwise
C15_FixedSizeReadsFailWhenShort ==
    /\ (read_result.kind = "value" /\ read_result.fmt # "str") =>
            /\ read_result.used = read_result.asked
            /\ f_pos >= read_result.used
    /\ (read_result.kind = "value" /\ read_result.fmt = "str") =>
            read_result.used >= 2
    /\ read_result.kind = "struct.error" =>
            /\ pc = "error"
            /\ read_result.fmt \in {"<I", "<f", "<3f", "<H"}
            /\ read_result.got < read_result.size
            /\ f_pos = Len(f_data)

\* a string whose length says 5 is returned with the 3 bytes that were left
C15_ShortStringReturned ==
    /\ read_result.kind = "value"
    /\ read_result.fmt = "str"
    /\ read_result.asked = 7
    /\ read_result.used = 5
    /\ read_result.value = <<65, 66>>

====
